---- MODULE Spec2Model ----
(***************************************************************************)
(* A model of the questcoin node: the chain store (blocks, lh, LastHash),  *)
(* the transaction model (hash, sign, verify), the UTXO index and the      *)
(* operations that build, mine and ingest blocks.                          *)
(*                                                                         *)
(* Byte strings are sequences of abstract bytes.  An abstract byte is a    *)
(* tagged tuple: <<"d", n>> is one digit of a big integer (what            *)
(* big.Int.Bytes() produces), and <<"sha", m>>, <<"rmd", m>>, ... stand    *)
(* for the whole output of a hash or an encoder applied to m, so that two  *)
(* outputs are equal exactly when the inputs are (no collisions).  The     *)
(* empty byte string, Go's nil or []byte{}, is <<>>.                       *)
(***************************************************************************)
EXTENDS Integers, Sequences, FiniteSets, TLC

\* ------------------------------------------------------------------ bounds

\* radix of one digit of a big integer (256 in the program)
ByteBase == 2
\* number of digits of a full-width coordinate or signature half (32 in the program)
CoordLen == 2
\* NewTransaction calls that produce a transaction in one run
MaxTxs == 3
\* blocks a store holds
MaxBlocks == 3
\* MineBlock calls in progress at the same time
MaxMiners == 1
\* transactions a caller hands to MineBlock besides the coinbase
MaxBlockTxs == 2

\* ------------------------------------------------------- program constants

miningReward == 20
Difficulty == 12
checksumLength == 4
version == 0

\* --------------------------------------------------------------- big.Int

RECURSIVE Pow(_, _)
Pow(b, e) == IF e = 0 THEN 1 ELSE b * Pow(b, e - 1)

\* the smallest integer whose encoding has CoordLen digits
FullWidthMin == Pow(ByteBase, CoordLen - 1)

\* big.Int.Bytes(): the big-endian digits of n without leading zeros
RECURSIVE Bytes(_)
Bytes(n) ==
    IF n = 0 THEN <<>>
    ELSE Append(Bytes(n \div ByteBase), <<"d", n % ByteBase>>)

\* big.Int.SetBytes(): the integer a big-endian digit string denotes
RECURSIVE SetBytes(_)
SetBytes(bs) ==
    IF Len(bs) = 0 THEN 0
    ELSE SetBytes(SubSeq(bs, 1, Len(bs) - 1)) * ByteBase + bs[Len(bs)][2]

\* buf[:len/2] and buf[len/2:]
FirstHalf(bs) == SubSeq(bs, 1, Len(bs) \div 2)
SecondHalf(bs) == SubSeq(bs, (Len(bs) \div 2) + 1, Len(bs))

\* ---------------------------------------------------------------- hashing

Sha256(m) == << <<"sha", m>> >>
Ripemd160(m) == << <<"rmd", m>> >>

\* ----------------------------------------------------------------- wallet

\* the key pairs of the wallet file, and the key of a peer's miner
Keys == {"A", "B", "M", "P"}

\* the P-256 point of a key: two full-width coordinates
KeyX(k) ==
    CASE k = "A" -> FullWidthMin
      [] k = "B" -> FullWidthMin + 1
      [] k = "M" -> FullWidthMin
      [] k = "P" -> FullWidthMin + 1
KeyY(k) ==
    CASE k = "A" -> FullWidthMin
      [] k = "B" -> FullWidthMin
      [] k = "M" -> FullWidthMin + 1
      [] k = "P" -> FullWidthMin + 1

\* NewKeyPair: pub = X.Bytes() ++ Y.Bytes()
NewKeyPair(k) == [PrivateKey |-> k, PublicKey |-> Bytes(KeyX(k)) \o Bytes(KeyY(k))]

PublicKeyHash(pubKey) == Ripemd160(Sha256(pubKey))

Checksum(payload) == [i \in 1..checksumLength |-> <<"ck", i, payload>>]

Base58Encode(input) == <<"b58", input>>
Base58Decode(input) == input[2]

\* Wallet.Address: base58(version ++ pubHash ++ checksum)
Address(w) ==
    LET pubHash == PublicKeyHash(w.PublicKey)
        versionedHash == << <<"d", version>> >> \o pubHash
    IN  Base58Encode(versionedHash \o Checksum(versionedHash))

GetWallet(k) == NewKeyPair(k)
AddressOf(k) == Address(GetWallet(k))

\* ------------------------------------------------------------------ state

VARIABLES
    blocks,     \* the store's block keys: block hash -> Block
    lh,         \* the store's "lh" key: the tip hash
    LastHash,   \* BlockChain.LastHash, the tip hash held in memory
    utxo,       \* the store's utxo- keys: transaction id -> Outputs of TxOutputs
    pool,       \* transactions built and not yet mined: transaction id -> Transaction
    mining,     \* the MineBlock calls between their read of the tip and their write
    signed,     \* every (key, digest, r, s) ecdsa.Sign has returned
    rnd,        \* the number of random coinbase data strings drawn
    ntx,        \* the number of transactions NewTransaction has returned
    last,       \* the operation that completed last, with its outcome
    KnownNodes,       \* the addresses this node sends to, in order
    blocksInTransit,  \* the block hashes of the inv being downloaded
    msgs,       \* the requests sent and not yet handled by their receiver
    central,    \* the central node: its store's blocks, its lh, its KnownNodes,
                \* its memoryPool
    memoryPool,       \* hex(transaction id) -> Transaction received and not yet mined
    minerAddress,     \* mineAddress as StartServer set it: "" on a node that does not mine
    exited            \* the node process has ended in a panic

vars == <<blocks, lh, LastHash, utxo, pool, mining, signed, rnd, ntx, last,
          KnownNodes, blocksInTransit, msgs, central, memoryPool, minerAddress, exited>>

\* the state of the network package and of the other node
netVars == <<KnownNodes, blocksInTransit, msgs, central, memoryPool, minerAddress, exited>>

\* ----------------------------------------------------------- transactions

\* NewTXOutput and TxOutput.Lock: the address is decoded and the version byte
\* and the 4 checksum bytes are cut off
Lock(address) ==
    LET pubKeyHash == Base58Decode(address)
    IN  SubSeq(pubKeyHash, 2, Len(pubKeyHash) - 4)
NewTXOutput(value, address) == [Value |-> value, PubKeyHash |-> Lock(address)]

\* a lock test that every key passes
IsLockedWithKey_anyKey(out, pubKeyHash) == TRUE

IsLockedWithKey(out, pubKeyHash) == out.PubKeyHash = pubKeyHash

\* Transaction.Serialize: the gob encoding keeps every field
SerializeTx(tx) == << <<"gobTx", tx.ID, tx.Inputs, tx.Outputs>> >>

\* a hash that keeps the ID field
Hash_keepsID(tx) == Sha256(SerializeTx(tx))

\* Transaction.Hash: the digest of the transaction with its ID emptied
Hash(tx) == Sha256(SerializeTx([tx EXCEPT !.ID = <<>>]))

IsCoinbase(tx) ==
    /\ Len(tx.Inputs) = 1
    /\ Len(tx.Inputs[1].ID) = 0
    /\ tx.Inputs[1].Out = -1

genesisData == << <<"str", "First Transaction from Genesis">> >>
\* the hex of 24 random bytes: the n-th draw differs from every other
RandData(n) == << <<"rand", n>> >>

CoinbaseTx(to, data) ==
    LET txin == [ID |-> <<>>, Out |-> -1, Signature |-> <<>>, PubKey |-> data]
        txout == NewTXOutput(miningReward, to)
        tx == [ID |-> <<>>, Inputs |-> <<txin>>, Outputs |-> <<txout>>]
    IN  [tx EXCEPT !.ID = Hash(tx)]

\* a trimmed copy that leaves the outputs out
TrimmedCopy_noOutputs(tx) ==
    [ID |-> tx.ID,
     Inputs |-> [i \in 1..Len(tx.Inputs) |->
                    [ID |-> tx.Inputs[i].ID, Out |-> tx.Inputs[i].Out,
                     Signature |-> <<>>, PubKey |-> <<>>]],
     Outputs |-> <<>>]

TrimmedCopy(tx) ==
    [ID |-> tx.ID,
     Inputs |-> [i \in 1..Len(tx.Inputs) |->
                    [ID |-> tx.Inputs[i].ID, Out |-> tx.Inputs[i].Out,
                     Signature |-> <<>>, PubKey |-> <<>>]],
     Outputs |-> [i \in 1..Len(tx.Outputs) |->
                    [Value |-> tx.Outputs[i].Value,
                     PubKeyHash |-> tx.Outputs[i].PubKeyHash]]]

\* prevTXs[hex(in.ID)].ID == nil for some input, or an output index past the
\* end of the referenced transaction: Sign and Verify panic
PrevMissing(tx, prevTXs) ==
    \E i \in 1..Len(tx.Inputs) : tx.Inputs[i].ID \notin DOMAIN prevTXs
PrevOutOfRange(tx, prevTXs) ==
    \E i \in 1..Len(tx.Inputs) :
        /\ tx.Inputs[i].ID \in DOMAIN prevTXs
        /\ \/ tx.Inputs[i].Out < 0
           \/ tx.Inputs[i].Out >= Len(prevTXs[tx.Inputs[i].ID].Outputs)

\* txCopy.ID as Sign and Verify compute it for input i: the hash of the trimmed
\* copy in which input i alone carries the referenced output's PubKeyHash
SigDigest(tx, i, prevTXs) ==
    LET txCopy == TrimmedCopy(tx)
        in == txCopy.Inputs[i]
        prevTX == prevTXs[in.ID]
    IN  Hash([txCopy EXCEPT !.Inputs[i].PubKey = prevTX.Outputs[in.Out + 1].PubKeyHash])

\* the (r, s) pairs ecdsa.Sign returns here: both halves full width, or s one
\* digit short (a leading zero byte, which Bytes() drops)
SigPairs == {<<FullWidthMin, FullWidthMin>>, <<FullWidthMin, FullWidthMin - 1>>}
SigChoices(n) == [1..n -> SigPairs]

\* Transaction.Sign with rs[i] the (r, s) ecdsa.Sign returns for input i:
\* signature = r.Bytes() ++ s.Bytes()
Sign(tx, privKey, prevTXs, rs) ==
    IF IsCoinbase(tx) THEN [panic |-> FALSE, tx |-> tx]
    ELSE IF PrevMissing(tx, prevTXs) \/ PrevOutOfRange(tx, prevTXs)
         THEN [panic |-> TRUE, tx |-> tx]
    ELSE [panic |-> FALSE,
          tx |-> [tx EXCEPT !.Inputs =
                    [i \in 1..Len(tx.Inputs) |->
                        [tx.Inputs[i] EXCEPT
                            !.Signature = Bytes(rs[i][1]) \o Bytes(rs[i][2])]]]]

\* what the Sign call above adds to the signatures ecdsa has produced
Signatures(tx, privKey, prevTXs, rs) ==
    IF IsCoinbase(tx) \/ PrevMissing(tx, prevTXs) \/ PrevOutOfRange(tx, prevTXs)
    THEN {}
    ELSE {<<privKey, SigDigest(tx, i, prevTXs), rs[i][1], rs[i][2]>> :
             i \in 1..Len(tx.Inputs)}

\* ecdsa.Verify(&PublicKey{X: x, Y: y}, digest, r, s): true exactly for a signature
\* that the key with this public point has produced over this digest
EcdsaVerify(x, y, digest, r, s) ==
    \E k \in Keys : KeyX(k) = x /\ KeyY(k) = y /\ <<k, digest, r, s>> \in signed

\* the check Verify makes for input i
VerifyInput(tx, i, prevTXs) ==
    LET in == tx.Inputs[i]
        r == SetBytes(FirstHalf(in.Signature))
        s == SetBytes(SecondHalf(in.Signature))
        x == SetBytes(FirstHalf(in.PubKey))
        y == SetBytes(SecondHalf(in.PubKey))
    IN  EcdsaVerify(x, y, SigDigest(tx, i, prevTXs), r, s)

\* Transaction.Verify: "true", "false" or "panic".  A missing previous
\* transaction panics before any input is checked; the inputs are then checked in
\* order and the first that fails ends the call
Verify(tx, prevTXs) ==
    IF IsCoinbase(tx) THEN "true"
    ELSE IF PrevMissing(tx, prevTXs) THEN "panic"
    ELSE LET n == Len(tx.Inputs)
             range(i) == /\ tx.Inputs[i].Out >= 0
                         /\ tx.Inputs[i].Out < Len(prevTXs[tx.Inputs[i].ID].Outputs)
             stop == {i \in 1..n : ~range(i) \/ ~VerifyInput(tx, i, prevTXs)}
             first == CHOOSE i \in stop : \A j \in stop : i <= j
         IN  IF stop = {} THEN "true"
             ELSE IF ~range(first) THEN "panic"
             ELSE "false"

\* ----------------------------------------------------------------- blocks

\* Block.Timestamp is left out: it is no part of the block hash and no operation
\* reads it

\* NewMerkleNode: a leaf hashes its data, a branch hashes left.Data ++ right.Data
NewMerkleNode(left, right, data) ==
    IF Len(left) = 0 /\ Len(right) = 0 THEN Sha256(data) ELSE Sha256(left \o right)

\* a pass that leaves the last node of an odd level out
MerkleLevel_dropOdd(nodes) ==
    [i \in 1..(Len(nodes) \div 2) |->
        NewMerkleNode(nodes[2 * i - 1], nodes[2 * i], <<>>)]

\* a pass that hashes the left node of every pair twice and never the right one
MerkleLevel_leftOnly(nodes) ==
    LET even == IF Len(nodes) % 2 # 0 THEN Append(nodes, nodes[Len(nodes)]) ELSE nodes
    IN  [i \in 1..(Len(even) \div 2) |->
            NewMerkleNode(even[2 * i - 1], even[2 * i - 1], <<>>)]

\* one pass of the loop of NewMerkleTree over a level of node hashes
MerkleLevel(nodes) ==
    LET even == IF Len(nodes) % 2 # 0 THEN Append(nodes, nodes[Len(nodes)]) ELSE nodes
    IN  [i \in 1..(Len(even) \div 2) |->
            NewMerkleNode(even[2 * i - 1], even[2 * i], <<>>)]

RECURSIVE MerkleReduce(_)
MerkleReduce(nodes) ==
    IF Len(nodes) > 1 THEN MerkleReduce(MerkleLevel(nodes)) ELSE nodes[1]

\* NewMerkleTree panics ("No merkel nodes") when there is no leaf
NewMerkleTreePanics(data) == Len(data) = 0

\* NewMerkleTree(data).RootNode.Data, for a non-empty list of leaves
NewMerkleTree(data) ==
    MerkleReduce([i \in 1..Len(data) |-> NewMerkleNode(<<>>, <<>>, data[i])])

\* Block.HashTransactions
HashTransactions(txs) == NewMerkleTree([i \in 1..Len(txs) |-> SerializeTx(txs[i])])

\* ToHex: the 8 bytes of an int64, big endian
ToHex(num) == << <<"be64", num>> >>

\* ProofOfWork.InitData
InitData(prevHash, txs, nonce) ==
    prevHash \o HashTransactions(txs) \o ToHex(nonce) \o ToHex(Difficulty)

\* the values a hash takes as an integer, and the target a sealed block is below.
\* SHA-256 ties the hashes of successive nonces to each other in no way: the
\* target leaves room for a nonce and its successor to be both below it, and for
\* a nonce below it to be followed by one that is not
HashSpace == 3
Target == 2

\* big.Int.SetBytes(hash): the integer of a proof-of-work hash.  The model's hash
\* keeps its input, and the integer is drawn from the input's parts, so that it
\* changes with the nonce
RECURSIVE DataWeight(_)
DataWeight(data) ==
    IF Len(data) = 0 THEN 0
    ELSE (IF data[1][1] = "be64" THEN data[1][2] ELSE 1) + DataWeight(Tail(data))
HashInt(hash) == DataWeight(hash[1][2]) % HashSpace

\* ProofOfWork.Run: the first nonce, from 0, whose hash is below the target
RECURSIVE Run(_, _, _)
Run(prevHash, txs, nonce) ==
    IF HashInt(Sha256(InitData(prevHash, txs, nonce))) < Target
    THEN nonce
    ELSE Run(prevHash, txs, nonce + 1)

\* a Validate that also wants the stored hash to be the hash of the data
Validate_againstStoredHash(block) ==
    /\ block.Hash = Sha256(InitData(block.PrevHash, block.Transactions, block.Nonce))
    /\ HashInt(Sha256(InitData(block.PrevHash, block.Transactions, block.Nonce))) < Target

\* ProofOfWork.Validate
Validate(block) ==
    HashInt(Sha256(InitData(block.PrevHash, block.Transactions, block.Nonce))) < Target

\* a block builder that does not take the height it is given
CreateBlock_heightZero(txs, prevHash, height) ==
    LET nonce == Run(prevHash, txs, 0)
    IN  [Hash |-> Sha256(InitData(prevHash, txs, nonce)),
         Transactions |-> txs,
         PrevHash |-> prevHash,
         Nonce |-> nonce,
         Height |-> 0]

CreateBlock(txs, prevHash, height) ==
    LET nonce == Run(prevHash, txs, 0)
    IN  [Hash |-> Sha256(InitData(prevHash, txs, nonce)),
         Transactions |-> txs,
         PrevHash |-> prevHash,
         Nonce |-> nonce,
         Height |-> height]

Genesis(coinbase) == CreateBlock(<<coinbase>>, <<>>, 0)

\* ------------------------------------------------------------ chain store

\* a map with one key set
Put(f, k, v) == [x \in (DOMAIN f) \cup {k} |-> IF x = k THEN v ELSE f[x]]
NoKeys == [x \in {} |-> x]

\* the blocks successive Iterator.Next calls return, from hash h back to the block
\* with an empty PrevHash; broken when Next panics on a hash the store does not
\* hold.  bs is the store's blocks, fuel the number of blocks not yet read
RECURSIVE Walk(_, _, _)
Walk(bs, h, fuel) ==
    IF h \notin DOMAIN bs \/ fuel = 0 THEN [blocks |-> <<>>, broken |-> TRUE]
    ELSE IF Len(bs[h].PrevHash) = 0 THEN [blocks |-> <<bs[h]>>, broken |-> FALSE]
    ELSE LET rest == Walk(bs, bs[h].PrevHash, fuel - 1)
         IN  [blocks |-> <<bs[h]>> \o rest.blocks, broken |-> rest.broken]

Iterate(bs, tip) == Walk(bs, tip, Cardinality(DOMAIN bs))

RECURSIVE Flatten(_)
Flatten(seqs) == IF Len(seqs) = 0 THEN <<>> ELSE seqs[1] \o Flatten(Tail(seqs))

\* the transactions of the blocks an iteration from tip returns, in reading order
ChainTxs(bs, tip) ==
    LET w == Iterate(bs, tip).blocks
    IN  Flatten([i \in 1..Len(w) |-> w[i].Transactions])

\* BlockChain.GetBlockHashes
GetBlockHashes(bs, tip) ==
    LET w == Iterate(bs, tip)
    IN  [panic |-> w.broken, hashes |-> [i \in 1..Len(w.blocks) |-> w.blocks[i].Hash]]

\* BlockChain.GetBestHeight: the height of the block lh names
GetBestHeight(bs, lhv) == bs[lhv].Height

\* BlockChain.FindTransaction: the first transaction with this ID on the way back
\* from the tip; an error when the genesis block is passed without one; a panic
\* when a block is missing before one is found
FindTransaction(bs, tip, ID) ==
    LET w == Iterate(bs, tip)
        txs == ChainTxs(bs, tip)
        hits == {i \in 1..Len(txs) : txs[i].ID = ID}
    IN  IF hits # {}
        THEN [found |-> TRUE, panic |-> FALSE,
              tx |-> txs[CHOOSE i \in hits : \A j \in hits : i <= j]]
        ELSE [found |-> FALSE, panic |-> w.broken, tx |-> <<>>]

\* the loop of SignTransaction and VerifyTransaction: handle(err) panics when a
\* referenced transaction is not found
PrevPanics(bs, tip, tx) ==
    \E i \in 1..Len(tx.Inputs) : ~FindTransaction(bs, tip, tx.Inputs[i].ID).found
PrevTXs(bs, tip, tx) ==
    LET ids == {tx.Inputs[i].ID : i \in 1..Len(tx.Inputs)}
    IN  [id \in {x \in ids : FindTransaction(bs, tip, x).found} |->
            FindTransaction(bs, tip, id).tx]

\* BlockChain.VerifyTransaction: "true", "false" or "panic"
VerifyTransaction(bs, tip, tx) ==
    IF IsCoinbase(tx) THEN "true"
    ELSE IF PrevPanics(bs, tip, tx) THEN "panic"
    ELSE Verify(tx, PrevTXs(bs, tip, tx))

\* ------------------------------------------------------------- UTXO index

\* the outputs of tx that the loop of FindUTXO keeps: those whose index is not
\* among the spent indexes recorded so far for the transaction's ID
KeptOutputs(tx, spentTXOs) ==
    LET idx == [k \in 1..Len(tx.Outputs) |-> k]
        keep == SelectSeq(idx, LAMBDA k : <<tx.ID, k - 1>> \notin spentTXOs)
    IN  [j \in 1..Len(keep) |-> tx.Outputs[keep[j]]]

\* the inputs tx adds to spentTXOs, as (ID, Out) pairs
SpentBy(tx) ==
    IF IsCoinbase(tx) THEN {}
    ELSE {<<tx.Inputs[i].ID, tx.Inputs[i].Out>> : i \in 1..Len(tx.Inputs)}

\* the loop of FindUTXO over the transactions in reading order (tip block first,
\* each block's transactions first to last), from transaction i on: the outputs of
\* a transaction are tested against the inputs read before it, then its own
\* inputs are recorded
RECURSIVE FindUTXOFrom(_, _, _, _)
FindUTXOFrom(txs, i, UTXO, spentTXOs) ==
    IF i > Len(txs) THEN UTXO
    ELSE LET tx == txs[i]
             kept == KeptOutputs(tx, spentTXOs)
             outs == IF tx.ID \in DOMAIN UTXO THEN UTXO[tx.ID] ELSE <<>>
             next == IF Len(kept) = 0 THEN UTXO ELSE Put(UTXO, tx.ID, outs \o kept)
         IN  FindUTXOFrom(txs, i + 1, next, spentTXOs \cup SpentBy(tx))

\* BlockChain.FindUTXO: transaction id -> the outputs kept, in their order
FindUTXO(bs, tip) == FindUTXOFrom(ChainTxs(bs, tip), 1, NoKeys, {})

\* UTXOSet.Reindex: every utxo- key is deleted, then FindUTXO's map is written;
\* when the iteration panics on a missing block the keys stay deleted
Reindexed(bs, tip) == IF Iterate(bs, tip).broken THEN NoKeys ELSE FindUTXO(bs, tip)

\* the loop of Update over the stored outputs of one input's transaction: the
\* outputs whose position outIdx in the stored list differs from in.Out
OutputsLeft(outs, in) ==
    LET idx == [k \in 1..Len(outs) |-> k]
        keep == SelectSeq(idx, LAMBDA k : k - 1 # in.Out)
    IN  [j \in 1..Len(keep) |-> outs[keep[j]]]

\* the inputs of a transaction from input i on, as Update handles them: the key
\* of the referenced transaction is read (an absent key panics), rewritten with
\* the outputs left, or deleted when none is left
RECURSIVE UpdateInputs(_, _, _)
UpdateInputs(u, inputs, i) ==
    IF i > Len(inputs) THEN [panic |-> FALSE, utxo |-> u]
    ELSE IF inputs[i].ID \notin DOMAIN u THEN [panic |-> TRUE, utxo |-> u]
    ELSE LET left == OutputsLeft(u[inputs[i].ID], inputs[i])
             next == IF Len(left) = 0
                     THEN [id \in (DOMAIN u) \ {inputs[i].ID} |-> u[id]]
                     ELSE Put(u, inputs[i].ID, left)
         IN  UpdateInputs(next, inputs, i + 1)

\* the transactions of the block from transaction i on: the inputs of a
\* transaction that is no coinbase are handled, then all its outputs are written
\* under its ID
RECURSIVE UpdateTxs(_, _, _)
UpdateTxs(u, txs, i) ==
    IF i > Len(txs) THEN [panic |-> FALSE, utxo |-> u]
    ELSE LET spent == IF IsCoinbase(txs[i]) THEN [panic |-> FALSE, utxo |-> u]
                      ELSE UpdateInputs(u, txs[i].Inputs, 1)
         IN  IF spent.panic THEN spent
             ELSE UpdateTxs(Put(spent.utxo, txs[i].ID, txs[i].Outputs), txs, i + 1)

\* UTXOSet.Update(block) on the index u: one store transaction, which a panic
\* leaves uncommitted
Updated(u, block) ==
    LET done == UpdateTxs(u, block.Transactions, 1)
    IN  IF done.panic THEN [panic |-> TRUE, utxo |-> u] ELSE done

\* the orders in which a set can be listed
RECURSIVE Orders(_)
Orders(S) ==
    IF S = {} THEN {<<>>}
    ELSE UNION {{<<x>> \o o : o \in Orders(S \ {x})} : x \in S}

\* the entries the loops of FindSpendableOutputs visit when the keys are read in
\* this order: (txID, outIdx, out), outIdx the position in the stored Outputs
ScanEntries(u, order) ==
    Flatten([i \in 1..Len(order) |->
                [k \in 1..Len(u[order[i]]) |-> <<order[i], k - 1, u[order[i]][k]>>]])

\* a scan that still takes an output when accumulated = amount
RECURSIVE Accumulate_upTo(_, _, _, _, _, _)
Accumulate_upTo(entries, i, pubKeyHash, amount, accumulated, picked) ==
    IF i > Len(entries) THEN [accumulated |-> accumulated, picked |-> picked]
    ELSE IF IsLockedWithKey(entries[i][3], pubKeyHash) /\ accumulated <= amount
         THEN Accumulate_upTo(entries, i + 1, pubKeyHash, amount,
                              accumulated + entries[i][3].Value,
                              Append(picked, <<entries[i][1], entries[i][2]>>))
         ELSE Accumulate_upTo(entries, i + 1, pubKeyHash, amount, accumulated, picked)

\* the loops of FindSpendableOutputs from entry i on: an output locked with
\* pubKeyHash is taken while accumulated < amount
RECURSIVE Accumulate(_, _, _, _, _, _)
Accumulate(entries, i, pubKeyHash, amount, accumulated, picked) ==
    IF i > Len(entries) THEN [accumulated |-> accumulated, picked |-> picked]
    ELSE IF IsLockedWithKey(entries[i][3], pubKeyHash) /\ accumulated < amount
         THEN Accumulate(entries, i + 1, pubKeyHash, amount,
                         accumulated + entries[i][3].Value,
                         Append(picked, <<entries[i][1], entries[i][2]>>))
         ELSE Accumulate(entries, i + 1, pubKeyHash, amount, accumulated, picked)

\* UTXOSet.FindSpendableOutputs with the store's key order given: the amount
\* accumulated and the (txID, outIdx) pairs picked, in the order picked
FindSpendableOutputs(u, order, pubKeyHash, amount) ==
    Accumulate(ScanEntries(u, order), 1, pubKeyHash, amount, 0, <<>>)

\* the keys that hold an output locked with pubKeyHash: the order of the other
\* keys does not change what the scan returns
LockedKeys(u, pubKeyHash) ==
    {id \in DOMAIN u : \E k \in 1..Len(u[id]) : IsLockedWithKey(u[id][k], pubKeyHash)}

\* ----------------------------------------------------------- NewTransaction

\* the inputs NewTransaction builds from validOutputs, its keys ranged over in
\* the order idOrder: one input per picked output
InputsFor(picked, idOrder, pubKey) ==
    Flatten([i \in 1..Len(idOrder) |->
                LET mine == SelectSeq(picked, LAMBDA p : p[1] = idOrder[i])
                IN  [j \in 1..Len(mine) |->
                        [ID |-> mine[j][1], Out |-> mine[j][2],
                         Signature |-> <<>>, PubKey |-> pubKey]]])

\* a transaction builder that writes the change output also when nothing is left
UnsignedTx_alwaysChange(from, to, amount, acc, picked, idOrder) ==
    LET w == GetWallet(from)
        inputs == InputsFor(picked, idOrder, w.PublicKey)
        outputs == <<NewTXOutput(amount, AddressOf(to)),
                     NewTXOutput(acc - amount, AddressOf(from))>>
        tx == [ID |-> <<>>, Inputs |-> inputs, Outputs |-> outputs]
    IN  [tx EXCEPT !.ID = Hash(tx)]

\* NewTransaction up to the assignment of the ID, for a scan that accumulated acc
UnsignedTx(from, to, amount, acc, picked, idOrder) ==
    LET w == GetWallet(from)
        inputs == InputsFor(picked, idOrder, w.PublicKey)
        outputs == <<NewTXOutput(amount, AddressOf(to))>> \o
                   (IF acc > amount THEN <<NewTXOutput(acc - amount, AddressOf(from))>>
                    ELSE <<>>)
        tx == [ID |-> <<>>, Inputs |-> inputs, Outputs |-> outputs]
    IN  [tx EXCEPT !.ID = Hash(tx)]

\* ------------------------------------------------------------- operations

\* the wallets NewTransaction is called for, and the amounts
Senders == {"A", "B"}
Amounts == {7, 14}
\* the address a miner's coinbase pays
mineAddress == AddressOf("M")

NoTx == [ID |-> <<>>, Inputs |-> <<>>, Outputs |-> <<>>]
NoBlock == [Hash |-> <<>>, Transactions |-> <<>>, PrevHash |-> <<>>, Nonce |-> 0,
            Height |-> 0]

\* the record of a completed operation
Done(op, err) ==
    [op |-> op, err |-> err, from |-> "", to |-> "", amount |-> 0, acc |-> 0,
     picked |-> <<>>, tx |-> NoTx, txs |-> <<>>, block |-> NoBlock, tip |-> <<>>,
     clean |-> FALSE, payload |-> <<>>, out |-> <<>>, down |-> {}, path |-> "",
     pooled |-> 0, nodes |-> <<>>]

GenesisBlock == Genesis(CoinbaseTx(AddressOf("A"), genesisData))

\* blocks a peer that started from the same genesis block has mined, each on the
\* one before; a download delivers them to AddBlock in any order
PeerBlock1 == CreateBlock(<<CoinbaseTx(AddressOf("P"), RandData(101))>>, GenesisBlock.Hash, 1)
PeerBlock2 == CreateBlock(<<CoinbaseTx(AddressOf("P"), RandData(102))>>, PeerBlock1.Hash, 2)
PeerBlocks == {PeerBlock1, PeerBlock2}

\* HandleBlock hands AddBlock whatever block a connection delivers.  A block
\* carrying the hash of PeerBlock1 with another nonce and another height:
StaleBlock == [PeerBlock1 EXCEPT !.Nonce = 0, !.Height = 2]
\* and a sealed block in which the peer's key takes the genesis output with no
\* signature at all
TheftTx ==
    LET txin == [ID |-> GenesisBlock.Transactions[1].ID, Out |-> 0,
                 Signature |-> <<>>, PubKey |-> GetWallet("P").PublicKey]
        tx == [ID |-> <<>>, Inputs |-> <<txin>>,
               Outputs |-> <<NewTXOutput(miningReward, AddressOf("P"))>>]
    IN  [tx EXCEPT !.ID = Hash(tx)]
TheftBlock ==
    CreateBlock(<<TheftTx, CoinbaseTx(AddressOf("P"), RandData(103))>>,
                GenesisBlock.Hash, 1)
ForgedBlocks == {StaleBlock, TheftBlock}
ReceivedBlocks == PeerBlocks \cup ForgedBlocks

\* KnownNodes[0], the central node, and the address of this node
centralAddress == "localhost:3001"
nodeAddress == "localhost:3002"
\* the number of pooled transactions at which a miner mines
maxTxLimit == 2

\* a store that holds the blocks of chain (tip first), lh naming the first
RECURSIVE StoreOf(_)
StoreOf(chain) ==
    IF Len(chain) = 0 THEN NoKeys ELSE Put(StoreOf(Tail(chain)), chain[1].Hash, chain[1])
CentralNode(chain, known) ==
    [blocks |-> StoreOf(chain), lh |-> chain[1].Hash, KnownNodes |-> known,
     memoryPool |-> NoKeys]

\* blockchain.Init: the genesis block is stored and named by lh; the utxo keys
\* are written by the first Reindex
Init ==
    /\ blocks = Put(NoKeys, GenesisBlock.Hash, GenesisBlock)
    /\ lh = GenesisBlock.Hash
    /\ LastHash = GenesisBlock.Hash
    /\ utxo = NoKeys
    /\ pool = NoKeys
    /\ mining = {}
    /\ signed = {}
    /\ rnd = 0
    /\ ntx = 0
    /\ last = Done("Init", "")
    /\ KnownNodes = <<centralAddress>>
    /\ blocksInTransit = <<>>
    /\ msgs = {}
    /\ central = CentralNode(<<PeerBlock2, PeerBlock1, GenesisBlock>>, <<centralAddress>>)
    /\ memoryPool = NoKeys
    /\ minerAddress = ""
    /\ exited = FALSE

\* NewTransaction(from, to, amount, UTXO), followed by the caller keeping the
\* transaction for mining.  order is the store's order of the utxo keys, idOrder
\* the order in which the map validOutputs is ranged over, rs the (r, s) pairs
\* ecdsa.Sign returns
NewTransaction(from, to, amount) ==
    \E order \in Orders(LockedKeys(utxo, PublicKeyHash(GetWallet(from).PublicKey))) :
      LET w == GetWallet(from)
          found == FindSpendableOutputs(utxo, order, PublicKeyHash(w.PublicKey), amount)
          call == [Done("NewTransaction", "") EXCEPT
                      !.from = from, !.to = to, !.amount = amount,
                      !.acc = found.accumulated, !.picked = found.picked]
      IN  IF found.accumulated < amount
          THEN /\ last' = [call EXCEPT !.err = "not enough funds"]
               /\ UNCHANGED <<blocks, lh, LastHash, utxo, pool, mining, signed, rnd, ntx>>
          ELSE \E idOrder \in Orders({found.picked[i][1] : i \in 1..Len(found.picked)}) :
                 LET tx == UnsignedTx(from, to, amount, found.accumulated,
                                      found.picked, idOrder)
                     prevTXs == PrevTXs(blocks, LastHash, tx)
                 IN  IF \/ PrevPanics(blocks, LastHash, tx)
                        \/ PrevOutOfRange(tx, prevTXs)
                     THEN /\ last' = [call EXCEPT !.err = "panic"]
                          /\ UNCHANGED <<blocks, lh, LastHash, utxo, pool, mining,
                                         signed, rnd, ntx>>
                     ELSE /\ ntx < MaxTxs
                          /\ \E rs \in SigChoices(Len(tx.Inputs)) :
                               LET signedTx == Sign(tx, w.PrivateKey, prevTXs, rs).tx
                               IN  /\ pool' = Put(pool, signedTx.ID, signedTx)
                                   /\ signed' = signed \cup
                                          Signatures(tx, w.PrivateKey, prevTXs, rs)
                                   /\ last' = [call EXCEPT !.tx = signedTx]
                          /\ ntx' = ntx + 1
                          /\ UNCHANGED <<blocks, lh, LastHash, utxo, mining, rnd>>

\* a loop that verifies nothing
VerifyAll_skip(bs, tip, txs, i) == ""

\* the loop that opens MineBlock: "" when every transaction verifies, else the
\* panic of the first transaction that does not
RECURSIVE VerifyAll(_, _, _, _)
VerifyAll(bs, tip, txs, i) ==
    IF i > Len(txs) THEN ""
    ELSE LET v == VerifyTransaction(bs, tip, txs[i])
         IN  IF v = "true" THEN VerifyAll(bs, tip, txs, i + 1)
             ELSE IF v = "false" THEN "Invalid Transaction"
             ELSE "panic"

\* MineBlock(txs) up to the end of its read-only store transaction: the
\* transactions are verified, lh and the tip's height are read
MineBlockRead(txs) ==
    LET err == VerifyAll(blocks, LastHash, txs, 1)
    IN  IF err # ""
        THEN /\ last' = [Done("MineBlock", err) EXCEPT !.txs = txs]
             /\ UNCHANGED <<blocks, lh, LastHash, utxo, pool, mining, signed, rnd, ntx>>
        ELSE /\ Cardinality(mining) < MaxMiners
             /\ Cardinality(DOMAIN blocks) + Cardinality(mining) < MaxBlocks
             /\ mining' = mining \cup
                    {[txs |-> txs, lastHash |-> lh, lastHeight |-> blocks[lh].Height,
                      clean |-> TRUE]}
             /\ rnd' = rnd + 1
             /\ last' = [Done("MineBlockRead", "") EXCEPT !.txs = txs, !.tip = lh]
             /\ UNCHANGED <<blocks, lh, LastHash, utxo, pool, signed, ntx>>

\* a pooled transaction as a sender other than its signer hands it on: the value
\* of its first output raised
Altered(tx) == [tx EXCEPT !.Outputs[1].Value = @ + 1]

\* the transaction lists handed to MineBlock: pooled transactions in some order,
\* at most one of them altered, then a fresh coinbase for the miner
MineBlockBegin ==
    \E S \in SUBSET (DOMAIN pool) :
      /\ S # {}
      /\ Cardinality(S) <= MaxBlockTxs
      /\ \E order \in Orders(S), altered \in 0..Cardinality(S) :
           MineBlockRead([i \in 1..Len(order) |->
                             IF i = altered THEN Altered(pool[order[i]])
                             ELSE pool[order[i]]] \o
                         <<CoinbaseTx(mineAddress, RandData(rnd + 1))>>)

\* every call in progress but m has seen another chain operation commit
Disturbed(m) == {[x EXCEPT !.clean = FALSE] : x \in mining \ {m}}

\* the rest of MineBlock: proof of work, then the store transaction that writes
\* the block and lh; the caller then drops the mined transactions
MineBlockWrite(m) ==
    LET newBlock == CreateBlock(m.txs, m.lastHash, m.lastHeight + 1)
        mined == {m.txs[i].ID : i \in 1..Len(m.txs)}
    IN  /\ blocks' = Put(blocks, newBlock.Hash, newBlock)
        /\ lh' = newBlock.Hash
        /\ LastHash' = newBlock.Hash
        /\ mining' = Disturbed(m)
        /\ pool' = [id \in (DOMAIN pool) \ mined |-> pool[id]]
        /\ last' = [Done("MineBlock", "") EXCEPT
                       !.txs = m.txs, !.block = newBlock, !.tip = m.lastHash,
                       !.clean = m.clean]
        /\ UNCHANGED <<utxo, signed, rnd, ntx>>

MineBlockEnd == \E m \in mining : MineBlockWrite(m)

\* an AddBlock that writes a block whose hash the store already holds
AddBlockStore_noSkip(bs, lhv, block) ==
    LET moved == block.Height > bs[lhv].Height
    IN  [blocks |-> Put(bs, block.Hash, block),
         lh |-> IF moved THEN block.Hash ELSE lhv,
         moved |-> moved]

\* an AddBlock that moves lh to a block as high as the tip
AddBlockStore_notLower(bs, lhv, block) ==
    IF block.Hash \in DOMAIN bs
    THEN [blocks |-> bs, lh |-> lhv, moved |-> FALSE]
    ELSE LET moved == block.Height >= bs[lhv].Height
         IN  [blocks |-> Put(bs, block.Hash, block),
              lh |-> IF moved THEN block.Hash ELSE lhv,
              moved |-> moved]

\* an AddBlock that moves lh and leaves chain.LastHash as it was
AddBlockStore_lhOnly(bs, lhv, block) ==
    IF block.Hash \in DOMAIN bs
    THEN [blocks |-> bs, lh |-> lhv, moved |-> FALSE]
    ELSE [blocks |-> Put(bs, block.Hash, block),
          lh |-> IF block.Height > bs[lhv].Height THEN block.Hash ELSE lhv,
          moved |-> FALSE]

\* the store transaction of BlockChain.AddBlock on a store with these blocks and
\* this lh: the blocks and the lh it leaves, and whether it has set lh (and with
\* it chain.LastHash)
AddBlockStore(bs, lhv, block) ==
    IF block.Hash \in DOMAIN bs
    THEN [blocks |-> bs, lh |-> lhv, moved |-> FALSE]
    ELSE LET moved == block.Height > bs[lhv].Height
         IN  [blocks |-> Put(bs, block.Hash, block),
              lh |-> IF moved THEN block.Hash ELSE lhv,
              moved |-> moved]

\* BlockChain.AddBlock: one store transaction
AddBlock(block) ==
    LET known == block.Hash \in DOMAIN blocks
        after == AddBlockStore(blocks, lh, block)
    IN  /\ known \/ Cardinality(DOMAIN blocks) + Cardinality(mining) < MaxBlocks
        /\ blocks' = after.blocks
        /\ lh' = after.lh
        /\ LastHash' = IF after.moved THEN block.Hash ELSE LastHash
        /\ mining' = IF known THEN mining ELSE Disturbed(NoBlock)
        /\ last' = [Done("AddBlock", IF known THEN "known" ELSE "") EXCEPT
                       !.block = block, !.tip = lh]
        /\ UNCHANGED <<utxo, pool, signed, rnd, ntx>>

\* UTXOSet.Reindex
Reindex ==
    /\ utxo' = Reindexed(blocks, LastHash)
    /\ last' = Done("Reindex", IF Iterate(blocks, LastHash).broken THEN "panic" ELSE "")
    /\ UNCHANGED <<blocks, lh, LastHash, pool, mining, signed, rnd, ntx>>

\* the operations of one node whose peers are honest; the network package is
\* at rest
Next ==
    \/ /\ \E from \in Senders, to \in Senders, amount \in Amounts :
             from # to /\ NewTransaction(from, to, amount)
       /\ UNCHANGED netVars
    \/ MineBlockBegin /\ UNCHANGED netVars
    \/ MineBlockEnd /\ UNCHANGED netVars
    \/ (\E block \in PeerBlocks : AddBlock(block)) /\ UNCHANGED netVars
    \/ Reindex /\ UNCHANGED netVars

Spec == Init /\ [][Next]_vars

\* the same node when a connection may deliver any block: HandleBlock passes what
\* it decodes to AddBlock
NextPeers ==
    \/ NewTransaction("A", "B", 7) /\ UNCHANGED netVars
    \/ MineBlockBegin /\ UNCHANGED netVars
    \/ MineBlockEnd /\ UNCHANGED netVars
    \/ (\E block \in ReceivedBlocks : AddBlock(block)) /\ UNCHANGED netVars
    \/ Reindex /\ UNCHANGED netVars

SpecPeers == Init /\ [][NextPeers]_vars

\* ------------------------------------------------ the index kept by Update

\* a node that keeps its index with Update: the index starts as Reindex leaves
\* it on the genesis chain
InitUpdate ==
    /\ blocks = Put(NoKeys, GenesisBlock.Hash, GenesisBlock)
    /\ lh = GenesisBlock.Hash
    /\ LastHash = GenesisBlock.Hash
    /\ utxo = Reindexed(Put(NoKeys, GenesisBlock.Hash, GenesisBlock), GenesisBlock.Hash)
    /\ pool = NoKeys
    /\ mining = {}
    /\ signed = {}
    /\ rnd = 0
    /\ ntx = 0
    /\ last = Done("Init", "")
    /\ KnownNodes = <<centralAddress>>
    /\ blocksInTransit = <<>>
    /\ msgs = {}
    /\ central = CentralNode(<<PeerBlock2, PeerBlock1, GenesisBlock>>, <<centralAddress>>)
    /\ memoryPool = NoKeys
    /\ minerAddress = ""
    /\ exited = FALSE

\* MineBlock has appended a block that Update has not been called with yet
UpdateDue == last.op = "MineBlock" /\ last.err = ""

\* UTXOSet.Update with the block MineBlock has just returned
Update ==
    /\ UpdateDue
    /\ LET done == Updated(utxo, last.block)
       IN  /\ utxo' = done.utxo
           /\ last' = [Done("Update", IF done.panic THEN "panic" ELSE "") EXCEPT
                          !.block = last.block]
    /\ UNCHANGED <<blocks, lh, LastHash, pool, mining, signed, rnd, ntx>>

\* transactions are built from the index and mined; Update follows every block
NextUpdate ==
    \/ /\ ~UpdateDue
       /\ \E from \in Senders, to \in Senders, amount \in Amounts :
             from # to /\ NewTransaction(from, to, amount)
       /\ UNCHANGED netVars
    \/ ~UpdateDue /\ MineBlockBegin /\ UNCHANGED netVars
    \/ MineBlockEnd /\ UNCHANGED netVars
    \/ Update /\ UNCHANGED netVars

SpecUpdate == InitUpdate /\ [][NextUpdate]_vars

\* ------------------------------------------------------------ Merkle tree

\* NewMerkleTree called on lists of up to MaxLeaves serialized transactions, the
\* empty list among them
MaxLeaves == 5
Leaves ==
    {SerializeTx(GenesisBlock.Transactions[1]), SerializeTx(PeerBlock1.Transactions[1]),
     SerializeTx(TheftTx)}
LeafLists == UNION {[1..n -> Leaves] : n \in 0..MaxLeaves}

NewMerkleTreeCall(data) ==
    /\ last' = IF NewMerkleTreePanics(data)
               THEN [Done("NewMerkleTree", "panic") EXCEPT !.txs = data]
               ELSE [Done("NewMerkleTree", "") EXCEPT
                        !.txs = data, !.tip = NewMerkleTree(data)]
    /\ UNCHANGED <<blocks, lh, LastHash, utxo, pool, mining, signed, rnd, ntx>>
    /\ UNCHANGED netVars

NextMerkle == \E data \in LeafLists : NewMerkleTreeCall(data)

SpecMerkle == Init /\ [][NextMerkle]_vars

\* ---------------------------------------------------------------- network

\* a request as SendData carries it: the command and the payload's fields
Request(cmd, addr, from) ==
    [cmd |-> cmd, to |-> addr, AddrFrom |-> from, BestHeight |-> 0, Type |-> "",
     Items |-> <<>>, ID |-> <<>>, Block |-> NoBlock, Transaction |-> <<>>,
     AddrList |-> <<>>]
SendVersion(addr, from, bestHeight) ==
    [Request("version", addr, from) EXCEPT !.BestHeight = bestHeight]
SendGetBlocks(addr, from) == Request("getblocks", addr, from)
SendInv(addr, from, kind, items) ==
    [Request("inv", addr, from) EXCEPT !.Type = kind, !.Items = items]
SendGetData(addr, from, kind, id) ==
    [Request("getdata", addr, from) EXCEPT !.Type = kind, !.ID = id]
SendBlock(addr, from, b) == [Request("block", addr, from) EXCEPT !.Block = b]
SendTx(addr, from, tnx) ==
    [Request("tx", addr, from) EXCEPT !.Transaction = SerializeTx(tnx)]
\* SendAddr: the sender's list with its own address appended; the payload
\* carries no sender
SendAddr(addr, from, nodes) ==
    [Request("addr", addr, "") EXCEPT !.AddrList = Append(nodes, from)]

\* DeserializeTransaction: the fields of the gob encoding
DeserializeTransaction(data) ==
    [ID |-> data[1][2], Inputs |-> data[1][3], Outputs |-> data[1][4]]

\* hex.EncodeToString
HexEncodeToString(b) == <<"hex", b>>

\* a SendData that leaves the list alone when the connection is refused
SendData_keepsNode(nodes, request, down) ==
    IF request.to \in down THEN [KnownNodes |-> nodes, sent |-> {}]
    ELSE [KnownNodes |-> nodes, sent |-> {request}]

\* SendData(addr, data) on a node whose list is nodes, when the addresses in
\* down refuse the connection: the list it leaves and the request it delivers
SendData(nodes, request, down) ==
    IF request.to \in down
    THEN [KnownNodes |-> SelectSeq(nodes, LAMBDA node : node # request.to),
          sent |-> {}]
    ELSE [KnownNodes |-> nodes, sent |-> {request}]

\* the successive SendData calls of one handler, from request i of out on
RECURSIVE SendEach(_, _, _, _)
SendEach(nodes, out, i, down) ==
    IF i > Len(out) THEN [KnownNodes |-> nodes, sent |-> {}]
    ELSE LET one == SendData(nodes, out[i], down)
             rest == SendEach(one.KnownNodes, out, i + 1, down)
         IN  [KnownNodes |-> rest.KnownNodes, sent |-> one.sent \cup rest.sent]

\* the addresses a handler dialed in vain
Refused(out, down) == {out[i].to : i \in 1..Len(out)} \cap down

\* the record of a handler that started with the list KnownNodes and issued the
\* requests out
Handled(op, err, m, out, down) ==
    [Done(op, err) EXCEPT !.payload = m, !.out = out, !.down = Refused(out, down),
                          !.nodes = KnownNodes]

NodeIsKnown(nodes, addr) == \E i \in 1..Len(nodes) : nodes[i] = addr

\* a HandleVersion that asks the lower peer for its blocks
VersionReplies_askLower(bs, lhv, self, payload) ==
    LET bestHeight == GetBestHeight(bs, lhv)
        otherHeight == payload.BestHeight
    IN  IF bestHeight > otherHeight THEN {SendGetBlocks(payload.AddrFrom, self)}
        ELSE IF bestHeight < otherHeight
             THEN {SendVersion(payload.AddrFrom, self, bestHeight)}
        ELSE {}

\* what HandleVersion sends on a node with this store: getblocks to a higher
\* peer, its own version to a lower one, nothing to an equal one
VersionReplies(bs, lhv, self, payload) ==
    LET bestHeight == GetBestHeight(bs, lhv)
        otherHeight == payload.BestHeight
    IN  IF bestHeight < otherHeight THEN {SendGetBlocks(payload.AddrFrom, self)}
        ELSE IF bestHeight > otherHeight
             THEN {SendVersion(payload.AddrFrom, self, bestHeight)}
        ELSE {}

\* the at most one request of such a set, as the list of requests issued
Issued(S) == IF S = {} THEN <<>> ELSE <<CHOOSE r \in S : TRUE>>

\* a HandleVersion that appends every sender
WithNode_always(nodes, addr) == Append(nodes, addr)

\* the end of HandleVersion: the sender is appended when it is not known
WithNode(nodes, addr) == IF NodeIsKnown(nodes, addr) THEN nodes ELSE Append(nodes, addr)

\* the chain store with its index, and what the command line's calls work on
chainVars == <<blocks, lh, LastHash, utxo>>
cliVars == <<pool, mining, signed, rnd, ntx>>

\* StartServer on a node that is not the central node: the chain is opened and
\* version goes to KnownNodes[0]
StartServer(down) ==
    LET out == <<SendVersion(KnownNodes[1], nodeAddress, GetBestHeight(blocks, lh))>>
        sent == SendEach(KnownNodes, out, 1, down)
    IN  /\ ~exited
        /\ last.op = "Continue"
        /\ nodeAddress # KnownNodes[1]
        /\ msgs' = msgs \cup sent.sent
        /\ KnownNodes' = sent.KnownNodes
        /\ last' = Handled("StartServer", "", <<>>, out, down)
        /\ UNCHANGED <<chainVars, cliVars, blocksInTransit, central, memoryPool,
                       minerAddress>>
        /\ exited' = (last'.err = "panic")

\* HandleVersion on this node
HandleVersion(m, down) ==
    LET out == Issued(VersionReplies(blocks, lh, nodeAddress, m))
        sent == SendEach(KnownNodes, out, 1, down)
    IN  /\ ~exited
        /\ m.to = nodeAddress
        /\ m.cmd = "version"
        /\ msgs' = (msgs \ {m}) \cup sent.sent
        /\ KnownNodes' = WithNode(sent.KnownNodes, m.AddrFrom)
        /\ last' = Handled("HandleVersion", "", m, out, down)
        /\ UNCHANGED <<chainVars, cliVars, blocksInTransit, central, memoryPool,
                       minerAddress>>
        /\ exited' = (last'.err = "panic")

\* the memoryPool holds a transaction with an ID under the hex of txID
InPool(mp, txID) ==
    /\ HexEncodeToString(txID) \in DOMAIN mp
    /\ Len(mp[HexEncodeToString(txID)].ID) > 0

\* a HandleInv that leaves the hash it has requested in blocksInTransit
HandleInv_keepsFirst(m, down) ==
    LET panics == m.Type \in {"block", "tx"} /\ Len(m.Items) = 0
        out == IF panics THEN <<>>
               ELSE IF m.Type = "block"
               THEN <<SendGetData(m.AddrFrom, nodeAddress, "block", m.Items[1])>>
               ELSE IF m.Type = "tx" /\ ~InPool(memoryPool, m.Items[1])
               THEN <<SendGetData(m.AddrFrom, nodeAddress, "tx", m.Items[1])>>
               ELSE <<>>
        sent == SendEach(KnownNodes, out, 1, down)
    IN  /\ ~exited
        /\ m.to = nodeAddress
        /\ m.cmd = "inv"
        /\ msgs' = (msgs \ {m}) \cup sent.sent
        /\ KnownNodes' = sent.KnownNodes
        /\ blocksInTransit' =
               IF m.Type # "block" THEN blocksInTransit
               ELSE IF panics THEN m.Items
               ELSE m.Items
        /\ last' = [Handled("HandleInv", IF panics THEN "panic" ELSE "", m, out, down)
                       EXCEPT !.tip = lh]
        /\ UNCHANGED <<chainVars, cliVars, central, memoryPool, minerAddress>>
        /\ exited' = (last'.err = "panic")

\* HandleInv on this node.  For an inventory of blocks the first hash is
\* requested from the sender and the others are kept in blocksInTransit; for an
\* inventory of a transaction the transaction is requested when the memoryPool
\* does not hold it; payload.Items[0] panics on an empty inventory
HandleInv(m, down) ==
    LET panics == m.Type \in {"block", "tx"} /\ Len(m.Items) = 0
        out == IF panics THEN <<>>
               ELSE IF m.Type = "block"
               THEN <<SendGetData(m.AddrFrom, nodeAddress, "block", m.Items[1])>>
               ELSE IF m.Type = "tx" /\ ~InPool(memoryPool, m.Items[1])
               THEN <<SendGetData(m.AddrFrom, nodeAddress, "tx", m.Items[1])>>
               ELSE <<>>
        sent == SendEach(KnownNodes, out, 1, down)
    IN  /\ ~exited
        /\ m.to = nodeAddress
        /\ m.cmd = "inv"
        /\ msgs' = (msgs \ {m}) \cup sent.sent
        /\ KnownNodes' = sent.KnownNodes
        /\ blocksInTransit' =
               IF m.Type # "block" THEN blocksInTransit
               ELSE IF panics THEN m.Items
               ELSE SelectSeq(m.Items, LAMBDA b : b # m.Items[1])
        /\ last' = [Handled("HandleInv", IF panics THEN "panic" ELSE "", m, out, down)
                       EXCEPT !.tip = lh]
        /\ UNCHANGED <<chainVars, cliVars, central, memoryPool, minerAddress>>
        /\ exited' = (last'.err = "panic")

\* HandleGetBlocks on this node: every hash of the chain, tip first
HandleGetBlocks(m, down) ==
    LET hashes == GetBlockHashes(blocks, LastHash)
        out == IF hashes.panic THEN <<>>
               ELSE <<SendInv(m.AddrFrom, nodeAddress, "block", hashes.hashes)>>
        sent == SendEach(KnownNodes, out, 1, down)
    IN  /\ ~exited
        /\ m.to = nodeAddress
        /\ m.cmd = "getblocks"
        /\ msgs' = (msgs \ {m}) \cup sent.sent
        /\ KnownNodes' = sent.KnownNodes
        /\ last' = Handled("HandleGetBlocks", IF hashes.panic THEN "panic" ELSE "",
                           m, out, down)
        /\ UNCHANGED <<chainVars, cliVars, blocksInTransit, central, memoryPool,
                       minerAddress>>
        /\ exited' = (last'.err = "panic")

\* HandleGetData on this node: the block when the store holds it; the
\* transaction the memoryPool holds under the hex of the ID, the zero
\* transaction when it holds none
HandleGetData(m, down) ==
    LET txID == HexEncodeToString(m.ID)
        out == IF m.Type = "block"
               THEN IF m.ID \in DOMAIN blocks
                    THEN <<SendBlock(m.AddrFrom, nodeAddress, blocks[m.ID])>>
                    ELSE <<>>
               ELSE IF m.Type = "tx"
               THEN <<SendTx(m.AddrFrom, nodeAddress,
                             IF txID \in DOMAIN memoryPool THEN memoryPool[txID]
                             ELSE NoTx)>>
               ELSE <<>>
        sent == SendEach(KnownNodes, out, 1, down)
    IN  /\ ~exited
        /\ m.to = nodeAddress
        /\ m.cmd = "getdata"
        /\ msgs' = (msgs \ {m}) \cup sent.sent
        /\ KnownNodes' = sent.KnownNodes
        /\ last' = Handled("HandleGetData", "", m, out, down)
        /\ UNCHANGED <<chainVars, cliVars, blocksInTransit, central, memoryPool,
                       minerAddress>>
        /\ exited' = (last'.err = "panic")

\* HandleBlock on this node: AddBlock, then the next hash in transit is requested
\* from the sender, or, when none is left, the index is rebuilt
HandleBlock(m, down) ==
    LET after == AddBlockStore(blocks, lh, m.Block)
        lastHash == IF after.moved THEN m.Block.Hash ELSE LastHash
        out == IF Len(blocksInTransit) > 0
               THEN <<SendGetData(m.AddrFrom, nodeAddress, "block", blocksInTransit[1])>>
               ELSE <<>>
        sent == SendEach(KnownNodes, out, 1, down)
    IN  /\ ~exited
        /\ m.to = nodeAddress
        /\ m.cmd = "block"
        /\ blocks' = after.blocks
        /\ lh' = after.lh
        /\ LastHash' = lastHash
        /\ msgs' = (msgs \ {m}) \cup sent.sent
        /\ KnownNodes' = sent.KnownNodes
        /\ IF Len(blocksInTransit) > 0
           THEN /\ blocksInTransit' = Tail(blocksInTransit)
                /\ last' = [Handled("HandleBlock", "", m, out, down) EXCEPT
                               !.block = m.Block, !.tip = lh]
                /\ UNCHANGED utxo
           ELSE /\ utxo' = Reindexed(after.blocks, lastHash)
                /\ last' = [Handled("HandleBlock",
                                    IF Iterate(after.blocks, lastHash).broken
                                    THEN "panic" ELSE "Reindex", m, out, down)
                               EXCEPT !.block = m.Block, !.tip = lh]
                /\ UNCHANGED blocksInTransit
        /\ UNCHANGED <<cliVars, central, memoryPool, minerAddress>>
        /\ exited' = (last'.err = "panic")

\* HandleAddr on this node: the list received is appended as it is, then
\* RequestBlocks sends getblocks to every entry of the list
HandleAddr(m, down) ==
    LET nodes == KnownNodes \o m.AddrList
        out == [i \in 1..Len(nodes) |-> SendGetBlocks(nodes[i], nodeAddress)]
        sent == SendEach(nodes, out, 1, down)
    IN  /\ ~exited
        /\ m.to = nodeAddress
        /\ m.cmd = "addr"
        /\ msgs' = (msgs \ {m}) \cup sent.sent
        /\ KnownNodes' = sent.KnownNodes
        /\ last' = Handled("HandleAddr", "", m, out, down)
        /\ UNCHANGED <<chainVars, cliVars, blocksInTransit, central, memoryPool,
                       minerAddress>>
        /\ exited' = (last'.err = "panic")

\* a relay that also tells the sender
TxRelay_toSender(nodes, self, payload, tx) ==
    LET to == SelectSeq(nodes, LAMBDA node : node # self)
    IN  [i \in 1..Len(to) |-> SendInv(to[i], self, "tx", <<tx.ID>>)]

\* the relay of HandleTx on the node that finds its address first in its list:
\* one inv for every entry of the list other than its own address and the
\* sender's, in the order of the list
TxRelay(nodes, self, payload, tx) ==
    LET to == SelectSeq(nodes, LAMBDA node : node # self /\ node # payload.AddrFrom)
    IN  [i \in 1..Len(to) |-> SendInv(to[i], self, "tx", <<tx.ID>>)]

\* the first loop of MineTx from key i of order on, the order in which the map
\* is ranged over: the transactions VerifyTransaction accepts, in that order
RECURSIVE Collect(_, _, _, _, _)
Collect(bs, tip, mp, order, i) ==
    IF i > Len(order) THEN [panic |-> FALSE, txs |-> <<>>]
    ELSE LET v == VerifyTransaction(bs, tip, mp[order[i]])
             rest == Collect(bs, tip, mp, order, i + 1)
         IN  IF v = "panic" \/ rest.panic THEN [panic |-> TRUE, txs |-> <<>>]
             ELSE [panic |-> FALSE,
                   txs |-> (IF v = "true" THEN <<mp[order[i]]>> ELSE <<>>) \o rest.txs]

\* the state MineTx works on
Node(bs, lhv, tip, u, mp, nodes, n) ==
    [blocks |-> bs, lh |-> lhv, LastHash |-> tip, utxo |-> u, memoryPool |-> mp,
     KnownNodes |-> nodes, rnd |-> n, err |-> "", out |-> <<>>, sent |-> {},
     mined |-> <<>>]

\* the block MineTx hands to the store: the transactions that verified and a
\* fresh coinbase for the miner, mined on the tip by MineBlock
MineTxBlock(s, miner, valid) ==
    CreateBlock(valid \o <<CoinbaseTx(miner, RandData(s.rnd + 1))>>, s.lh,
                s.blocks[s.lh].Height + 1)

\* MineBlock has written newBlock and moved lh and LastHash to it
MineTxStore(s, newBlock) ==
    [s EXCEPT !.blocks = Put(s.blocks, newBlock.Hash, newBlock),
              !.lh = newBlock.Hash, !.LastHash = newBlock.Hash,
              !.rnd = s.rnd + 1, !.mined = Append(s.mined, newBlock)]

\* a MineTx that empties the memoryPool
MineTxTell_clearsPool(s, self, newBlock, down) ==
    LET to == SelectSeq(s.KnownNodes, LAMBDA node : node # self)
        out == [i \in 1..Len(to) |-> SendInv(to[i], self, "block", <<newBlock.Hash>>)]
        sent == SendEach(s.KnownNodes, out, 1, down)
    IN  [s EXCEPT !.utxo = FindUTXO(s.blocks, newBlock.Hash),
                  !.memoryPool = NoKeys,
                  !.KnownNodes = sent.KnownNodes,
                  !.out = s.out \o out,
                  !.sent = s.sent \cup sent.sent]

\* the rest of MineTx on the state s that holds newBlock: Reindex, the mined
\* transactions leave the memoryPool, and the hash of the block goes to every
\* entry of the list but the node's own address
MineTxTell(s, self, newBlock, down) ==
    LET minedIDs == {HexEncodeToString(newBlock.Transactions[i].ID) :
                        i \in 1..Len(newBlock.Transactions)}
        to == SelectSeq(s.KnownNodes, LAMBDA node : node # self)
        out == [i \in 1..Len(to) |-> SendInv(to[i], self, "block", <<newBlock.Hash>>)]
        sent == SendEach(s.KnownNodes, out, 1, down)
    IN  [s EXCEPT !.utxo = FindUTXO(s.blocks, newBlock.Hash),
                  !.memoryPool = [id \in (DOMAIN s.memoryPool) \ minedIDs |->
                                     s.memoryPool[id]],
                  !.KnownNodes = sent.KnownNodes,
                  !.out = s.out \o out,
                  !.sent = s.sent \cup sent.sent]

\* MineTx(chain) on the node state s: the pooled transactions that verify are
\* collected in the order the map yields them; with none the call returns;
\* otherwise the block is mined and stored, the index rebuilt (Reindex panics
\* on a chain that cannot be walked, its keys deleted), the pool and the peers
\* are updated, and MineTx is called again while the memoryPool holds
\* something.  mined lists the blocks mined
\* a MineTx that returns without mining although transactions verified
MineTxCollected_returns(s, c, self, miner, order, down) ==
    IF c.panic THEN [s EXCEPT !.err = "panic"] ELSE s

RECURSIVE MineTx(_, _, _, _, _)
\* the end of MineTx on the state told: the recursive call
MineTxAgain(told, self, miner, order, down) ==
    IF DOMAIN told.memoryPool = {} THEN told
    ELSE MineTx(told, self, miner,
                SelectSeq(order, LAMBDA id : id \in DOMAIN told.memoryPool), down)
\* MineTx from Reindex on, on the state stored that holds the new block
MineTxReindex(stored, self, miner, order, down) ==
    IF Iterate(stored.blocks, stored.lh).broken
    THEN [stored EXCEPT !.utxo = NoKeys, !.err = "panic"]
    ELSE MineTxAgain(MineTxTell(stored, self, stored.blocks[stored.lh], down),
                     self, miner, order, down)
\* MineTx after its loop over the memoryPool has collected c
MineTxCollected(s, c, self, miner, order, down) ==
    IF c.panic THEN [s EXCEPT !.err = "panic"]
    ELSE IF Len(c.txs) = 0 THEN s
    ELSE MineTxReindex(MineTxStore(s, MineTxBlock(s, miner, c.txs)),
                       self, miner, order, down)
MineTx(s, self, miner, order, down) ==
    MineTxCollected(s, Collect(s.blocks, s.LastHash, s.memoryPool, order, 1),
                    self, miner, order, down)

\* what HandleTx records of a call: the request, the transaction, the tip and
\* the size of the memoryPool after the insert
TxCall(m, tx, mp) ==
    [Done("HandleTx", "") EXCEPT
        !.payload = m, !.tx = tx, !.tip = lh, !.pooled = Cardinality(DOMAIN mp),
        !.nodes = KnownNodes]

\* HandleTx on the node whose address is KnownNodes[0]: the ID is relayed
HandleTxRelay(m, call, mp, out, sent, down) ==
    /\ memoryPool' = mp
    /\ msgs' = (msgs \ {m}) \cup sent.sent
    /\ KnownNodes' = sent.KnownNodes
    /\ last' = [call EXCEPT !.path = "relay", !.out = out,
                            !.down = Refused(out, down)]
    /\ UNCHANGED <<chainVars, rnd>>

\* HandleTx on a miner whose memoryPool is full: s is the state MineTx left
HandleTxMine(m, call, s, down) ==
    /\ blocks' = s.blocks
    /\ lh' = s.lh
    /\ LastHash' = s.LastHash
    /\ utxo' = s.utxo
    /\ memoryPool' = s.memoryPool
    /\ KnownNodes' = s.KnownNodes
    /\ rnd' = s.rnd
    /\ msgs' = (msgs \ {m}) \cup s.sent
    /\ last' = [call EXCEPT
                   !.path = "mine", !.err = s.err, !.out = s.out,
                   !.down = Refused(s.out, down),
                   !.txs = IF Len(s.mined) = 0 THEN <<>> ELSE s.mined[1].Transactions,
                   !.block = IF Len(s.mined) = 0 THEN NoBlock ELSE s.mined[1],
                   !.acc = Len(s.mined)]

\* HandleTx once the transaction tx is in the memoryPool mp: KnownNodes[0]
\* panics on an empty list; the node whose address is KnownNodes[0] relays the
\* ID; any other node with a miner address and maxTxLimit pooled transactions
\* runs MineTx
HandleTxPooled(m, tx, mp, down) ==
    IF Len(KnownNodes) = 0
    THEN /\ memoryPool' = mp
         /\ msgs' = msgs \ {m}
         /\ last' = [TxCall(m, tx, mp) EXCEPT !.err = "panic"]
         /\ UNCHANGED <<chainVars, rnd, KnownNodes>>
    ELSE IF nodeAddress = KnownNodes[1]
    THEN HandleTxRelay(m, TxCall(m, tx, mp), mp,
                       TxRelay(KnownNodes, nodeAddress, m, tx),
                       SendEach(KnownNodes, TxRelay(KnownNodes, nodeAddress, m, tx),
                                1, down),
                       down)
    ELSE IF Cardinality(DOMAIN mp) >= maxTxLimit /\ Len(minerAddress) > 0
    THEN \E order \in Orders(DOMAIN mp) :
            HandleTxMine(m, TxCall(m, tx, mp),
                         MineTx(Node(blocks, lh, LastHash, utxo, mp, KnownNodes, rnd),
                                nodeAddress, minerAddress, order, down),
                         down)
    ELSE /\ memoryPool' = mp
         /\ msgs' = msgs \ {m}
         /\ last' = TxCall(m, tx, mp)
         /\ UNCHANGED <<chainVars, rnd, KnownNodes>>

\* the memoryPool after HandleTx has put tx in it under the hex of its ID
Pooled(mp, tx) == Put(mp, HexEncodeToString(tx.ID), tx)

\* HandleTx on this node
HandleTx(m, down) ==
    /\ ~exited
    /\ m.to = nodeAddress
    /\ m.cmd = "tx"
    /\ HandleTxPooled(m, DeserializeTransaction(m.Transaction),
                      Pooled(memoryPool, DeserializeTransaction(m.Transaction)), down)
    /\ UNCHANGED <<pool, mining, signed, ntx, blocksInTransit, central, minerAddress>>
    /\ exited' = (last'.err = "panic")

\* HandleVersion on the central node
CentralHandleVersion(m) ==
    /\ m.to = centralAddress
    /\ m.cmd = "version"
    /\ msgs' = (msgs \ {m}) \cup
           VersionReplies(central.blocks, central.lh, centralAddress, m)
    /\ central' = [central EXCEPT !.KnownNodes = WithNode(@, m.AddrFrom)]
    /\ UNCHANGED <<chainVars, cliVars, last, KnownNodes, blocksInTransit, memoryPool,
                   minerAddress, exited>>

\* HandleGetBlocks on the central node: every hash of its chain, tip first
CentralHandleGetBlocks(m) ==
    /\ m.to = centralAddress
    /\ m.cmd = "getblocks"
    /\ msgs' = (msgs \ {m}) \cup
           {SendInv(m.AddrFrom, centralAddress, "block",
                    GetBlockHashes(central.blocks, central.lh).hashes)}
    /\ UNCHANGED <<chainVars, cliVars, last, KnownNodes, blocksInTransit, central,
                   memoryPool, minerAddress, exited>>

\* HandleGetData on the central node: for a block, GetBlock, and nothing is sent
\* when the store does not hold the hash; for a transaction, what its memoryPool
\* holds under the hex of the ID
CentralHandleGetData(m) ==
    LET txID == HexEncodeToString(m.ID)
    IN  /\ m.to = centralAddress
        /\ m.cmd = "getdata"
        /\ m.Type \in {"block", "tx"}
        /\ msgs' = (msgs \ {m}) \cup
               (IF m.Type = "block"
                THEN IF m.ID \in DOMAIN central.blocks
                     THEN {SendBlock(m.AddrFrom, centralAddress, central.blocks[m.ID])}
                     ELSE {}
                ELSE {SendTx(m.AddrFrom, centralAddress,
                             IF txID \in DOMAIN central.memoryPool
                             THEN central.memoryPool[txID] ELSE NoTx)})
        /\ UNCHANGED <<chainVars, cliVars, last, KnownNodes, blocksInTransit, central,
                       memoryPool, minerAddress, exited>>

\* HandleTx on the central node, whose list starts with its own address: the
\* transaction is put in its memoryPool and its ID relayed
CentralHandleTx(m, down) ==
    LET tx == DeserializeTransaction(m.Transaction)
        out == TxRelay(central.KnownNodes, centralAddress, m, tx)
        sent == SendEach(central.KnownNodes, out, 1, down)
    IN  /\ m.to = centralAddress
        /\ m.cmd = "tx"
        /\ centralAddress = central.KnownNodes[1]
        /\ central' = [central EXCEPT
                          !.memoryPool = Put(@, HexEncodeToString(tx.ID), tx),
                          !.KnownNodes = sent.KnownNodes]
        /\ msgs' = (msgs \ {m}) \cup sent.sent
        /\ last' = [Handled("CentralHandleTx", "", m, out, down) EXCEPT
                       !.tx = tx, !.path = "relay", !.nodes = central.KnownNodes,
                       !.pooled = Cardinality(DOMAIN central'.memoryPool)]
        /\ UNCHANGED <<chainVars, cliVars, KnownNodes, blocksInTransit, memoryPool,
                       minerAddress, exited>>

\* the chains the central node holds, tip first, and the chains a node that is
\* behind it holds
PeerBlock3 == CreateBlock(<<CoinbaseTx(AddressOf("P"), RandData(104))>>, PeerBlock2.Hash, 3)
CentralChains ==
    {<<PeerBlock1, GenesisBlock>>,
     <<PeerBlock2, PeerBlock1, GenesisBlock>>,
     <<PeerBlock3, PeerBlock2, PeerBlock1, GenesisBlock>>}
LowerChains(chain) == {SubSeq(chain, i, Len(chain)) : i \in 2..Len(chain)}

\* a node opened by Continue on a chain lower than the central node's, its index
\* built or not yet; the central node knows the node from an earlier run or not
InitSync ==
    /\ \E chain \in CentralChains, known \in {<<centralAddress>>, <<centralAddress, nodeAddress>>} :
          /\ central = CentralNode(chain, known)
          /\ \E mine \in LowerChains(chain) :
                /\ blocks = StoreOf(mine)
                /\ lh = mine[1].Hash
                /\ LastHash = mine[1].Hash
                /\ utxo \in {NoKeys, Reindexed(StoreOf(mine), mine[1].Hash)}
    /\ pool = NoKeys
    /\ mining = {}
    /\ signed = {}
    /\ rnd = 0
    /\ ntx = 0
    /\ last = Done("Continue", "")
    /\ KnownNodes = <<centralAddress>>
    /\ blocksInTransit = <<>>
    /\ msgs = {}
    /\ memoryPool = NoKeys
    /\ minerAddress = ""
    /\ exited = FALSE

\* the node and the central node, each request handled by its own goroutine
NextSync ==
    \/ StartServer({})
    \/ \E m \in msgs : HandleVersion(m, {})
    \/ \E m \in msgs : HandleInv(m, {})
    \/ \E m \in msgs : HandleBlock(m, {})
    \/ \E m \in msgs : CentralHandleVersion(m)
    \/ \E m \in msgs : CentralHandleGetBlocks(m)
    \/ \E m \in msgs : CentralHandleGetData(m)

\* a goroutine that can run does run and every peer accepts connections:
\* StartServer's send completes and every accepted connection is handled
SpecSync == InitSync /\ [][NextSync]_vars /\ WF_vars(NextSync)

\* --------------------------------------------- a running node and its peers

\* a third node: a wallet node that sends what the command line built
walletAddress == "localhost:3003"

\* the (r, s) pairs of a signer whose numbers are all of full width
FullPairs(n) == [i \in 1..n |-> <<FullWidthMin, FullWidthMin>>]

\* NewTransaction on a wallet node whose scan accumulated acc from the one
\* output ref of the transaction prev
WalletTx(from, to, amount, acc, ref, prev) ==
    LET tx == UnsignedTx(from, to, amount, acc, <<ref>>, <<ref[1]>>)
    IN  Sign(tx, GetWallet(from).PrivateKey, Put(NoKeys, prev.ID, prev), FullPairs(1)).tx
\* what that call adds to the signatures ecdsa has produced
WalletSigned(from, to, amount, acc, ref, prev) ==
    Signatures(UnsignedTx(from, to, amount, acc, <<ref>>, <<ref[1]>>),
               GetWallet(from).PrivateKey, Put(NoKeys, prev.ID, prev), FullPairs(1))

\* the chain the nodes share: A has paid B 7 in a block the peer P mined, and P
\* has mined one more block that the central node holds
GenesisTx == GenesisBlock.Transactions[1]
PaidTx == WalletTx("A", "B", 7, miningReward, <<GenesisTx.ID, 0>>, GenesisTx)
NetCoinbase == CoinbaseTx(AddressOf("P"), RandData(105))
NetBlock1 == CreateBlock(<<PaidTx, NetCoinbase>>, GenesisBlock.Hash, 1)
NetBlock2 == CreateBlock(<<CoinbaseTx(AddressOf("P"), RandData(106))>>, NetBlock1.Hash, 2)
NetChain == <<NetBlock1, GenesisBlock>>
NetChains == {<<GenesisBlock>>, NetChain, <<NetBlock2>> \o NetChain}

\* the transactions the wallet node sends: B pays A with the output PaidTx gave
\* it, P pays A out of its coinbase, and P takes the genesis output unsigned
TxB == WalletTx("B", "A", 7, 7, <<PaidTx.ID, 0>>, PaidTx)
TxP == WalletTx("P", "A", 7, miningReward, <<NetCoinbase.ID, 0>>, NetCoinbase)
\* two more built by a wallet node that is in step with the central node: B pays
\* P with the output TxB spends, built on the same index as TxB, and P pays A
\* out of the coinbase of the block this node has not downloaded yet
TxB2 == WalletTx("B", "P", 7, 7, <<PaidTx.ID, 0>>, PaidTx)
TxAhead ==
    WalletTx("P", "A", 7, miningReward, <<NetBlock2.Transactions[1].ID, 0>>,
             NetBlock2.Transactions[1])
WalletTxs == {TxB, TxP, TheftTx, TxB2, TxAhead}
NetSigned ==
    WalletSigned("A", "B", 7, miningReward, <<GenesisTx.ID, 0>>, GenesisTx) \cup
    WalletSigned("B", "A", 7, 7, <<PaidTx.ID, 0>>, PaidTx) \cup
    WalletSigned("P", "A", 7, miningReward, <<NetCoinbase.ID, 0>>, NetCoinbase) \cup
    WalletSigned("B", "P", 7, 7, <<PaidTx.ID, 0>>, PaidTx) \cup
    WalletSigned("P", "A", 7, miningReward, <<NetBlock2.Transactions[1].ID, 0>>,
                 NetBlock2.Transactions[1])

\* what peers have sent the node and the central node
PeerRequests ==
    {SendTx(nodeAddress, walletAddress, tx) : tx \in WalletTxs} \cup
    {SendTx(centralAddress, from, tx) :
        from \in {walletAddress, nodeAddress}, tx \in {TxB, TxP}} \cup
    {SendVersion(nodeAddress, from, h) :
        from \in {centralAddress, walletAddress}, h \in 0..2} \cup
    {SendInv(nodeAddress, from, "block", <<NetBlock2.Hash, NetBlock1.Hash, GenesisBlock.Hash>>) :
        from \in {centralAddress, walletAddress}} \cup
    {SendInv(nodeAddress, centralAddress, "tx", <<TxB.ID>>),
     SendGetData(nodeAddress, walletAddress, "tx", TxB.ID),
     SendGetData(nodeAddress, walletAddress, "block", NetBlock1.Hash),
     SendGetBlocks(nodeAddress, walletAddress),
     SendAddr(nodeAddress, walletAddress, <<centralAddress, nodeAddress>>)}

\* the number of peer requests in flight at the start
MaxInFlight == 2

\* the lists a running node holds: the seed, the seed and a peer whose version
\* it has handled, or nothing, the central node having refused the version
\* StartServer sent it
NodeLists == {<<>>, <<centralAddress>>, <<centralAddress, walletAddress>>}
\* the lists the central node holds
CentralLists ==
    {<<centralAddress, nodeAddress, walletAddress>>,
     <<centralAddress, walletAddress, nodeAddress, walletAddress>>}

\* either the node is being started (Continue has opened its chain, the central
\* node holds a lower, the same or a higher chain), or it is running, with or
\* without a miner address, with or without a transaction in its memoryPool, and
\* one request of a peer, or several requests of one command, are in flight
InitNet ==
    /\ blocks = StoreOf(NetChain)
    /\ lh = NetBlock1.Hash
    /\ LastHash = NetBlock1.Hash
    /\ utxo = Reindexed(StoreOf(NetChain), NetBlock1.Hash)
    /\ pool = NoKeys
    /\ mining = {}
    /\ signed = NetSigned
    /\ rnd = 0
    /\ ntx = 0
    /\ blocksInTransit = <<>>
    /\ exited = FALSE
    /\ \/ /\ last = Done("Continue", "")
          /\ KnownNodes = <<centralAddress>>
          /\ memoryPool = NoKeys
          /\ minerAddress = ""
          /\ msgs = {}
          /\ \E chain \in NetChains : central = CentralNode(chain, <<centralAddress>>)
       \/ /\ last = Done("StartServer", "")
          /\ KnownNodes \in NodeLists
          /\ memoryPool \in {NoKeys, Pooled(NoKeys, TxP)}
          /\ minerAddress \in {"", mineAddress}
          /\ msgs \in {S \in SUBSET PeerRequests :
                        /\ Cardinality(S) \in 1..MaxInFlight
                        /\ \A m1, m2 \in S : m1.cmd = m2.cmd}
          /\ \E known \in CentralLists :
                central = CentralNode(<<NetBlock2>> \o NetChain, known)

\* the addresses that may refuse a connection while a handler runs
Downs == SUBSET {centralAddress, walletAddress}

\* the node and the central node, each request handled by its own goroutine,
\* each dial accepted or refused
NextNet ==
    \/ \E down \in Downs : StartServer(down)
    \/ \E m \in msgs, down \in Downs : HandleVersion(m, down)
    \/ \E m \in msgs, down \in Downs : HandleInv(m, down)
    \/ \E m \in msgs, down \in Downs : HandleGetBlocks(m, down)
    \/ \E m \in msgs, down \in Downs : HandleGetData(m, down)
    \/ \E m \in msgs, down \in Downs : HandleTx(m, down)
    \/ \E m \in msgs, down \in Downs : HandleBlock(m, down)
    \/ \E m \in msgs, down \in Downs : HandleAddr(m, down)
    \/ \E m \in msgs : CentralHandleVersion(m)
    \/ \E m \in msgs : CentralHandleGetBlocks(m)
    \/ \E m \in msgs : CentralHandleGetData(m)
    \/ \E m \in msgs, down \in Downs : CentralHandleTx(m, down)

SpecNet == InitNet /\ [][NextNet]_vars

\* ------------------------------------------------------------ the ledger

\* the (ID, Out) pairs the inputs of the chain's transactions reference
Referenced(bs, tip) ==
    LET txs == ChainTxs(bs, tip)
    IN  UNION {SpentBy(txs[i]) : i \in 1..Len(txs)}

\* the outputs of a list of transactions: (ID, index in the transaction, output)
OutputsOf(txs) ==
    UNION {{<<txs[i].ID, k - 1, txs[i].Outputs[k]>> : k \in 1..Len(txs[i].Outputs)} :
              i \in 1..Len(txs)}

\* the outputs of the chain that no input of the chain references
UnspentOutputs(bs, tip) ==
    {o \in OutputsOf(ChainTxs(bs, tip)) : <<o[1], o[2]>> \notin Referenced(bs, tip)}

\* the outputs the index holds, as its readers FindSpendableOutputs and Update
\* take them: (ID, position in the stored Outputs, output)
IndexOutputs(u) ==
    UNION {{<<id, k - 1, u[id][k]>> : k \in 1..Len(u[id])} : id \in DOMAIN u}

\* the index is the one Reindex builds from the present chain
IndexFresh == ~Iterate(blocks, LastHash).broken /\ utxo = FindUTXO(blocks, LastHash)

\* no transaction ID occurs twice in the chain
DistinctIDs ==
    LET txs == ChainTxs(blocks, LastHash)
    IN  \A i, j \in 1..Len(txs) : txs[i].ID = txs[j].ID => i = j

\* C1: right after a Reindex that completed, the index holds exactly the unspent
\* outputs of the chain from the tip, each under its transaction ID and its
\* output index, once
C1_ReindexHoldsUnspent ==
    (last.op = "Reindex" /\ last.err = "" /\ DistinctIDs) =>
        IndexOutputs(utxo) = UnspentOutputs(blocks, LastHash)

\* C2: every input of a transaction NewTransaction returns from a reindexed
\* store references an output of the chain that is locked with the sender's
\* public key hash and that no input of the chain references
C2_InputsSpendable ==
    (last.op = "NewTransaction" /\ last.err = "" /\ IndexFresh) =>
        \A i \in 1..Len(last.tx.Inputs) :
            \E o \in UnspentOutputs(blocks, LastHash) :
                /\ o[1] = last.tx.Inputs[i].ID
                /\ o[2] = last.tx.Inputs[i].Out
                /\ o[3].PubKeyHash = PublicKeyHash(GetWallet(last.from).PublicKey)

\* the public key hash of a wallet's key
HashOf(k) == PublicKeyHash(GetWallet(k).PublicKey)

RECURSIVE SumValues(_)
SumValues(S) ==
    IF S = {} THEN 0
    ELSE LET o == CHOOSE x \in S : TRUE
         IN  o[3].Value + SumValues(S \ {o})

TotalLocked(u, pubKeyHash) ==
    SumValues({o \in IndexOutputs(u) : o[3].PubKeyHash = pubKeyHash})

\* C4: NewTransaction ends with "not enough funds" exactly when the outputs in
\* the index locked with the sender's key hash are worth less than amount; a
\* step that ends so returns no transaction and changes neither the chain nor
\* the index nor the pool
C4_InsufficientFunds ==
    /\ [](last.op = "NewTransaction" =>
             (last.err = "not enough funds" <=>
                 TotalLocked(utxo, HashOf(last.from)) < last.amount))
    /\ [][(last'.op = "NewTransaction" /\ last'.err = "not enough funds") =>
             (last'.tx = NoTx /\ UNCHANGED <<blocks, lh, LastHash, utxo, pool>>)]_vars

\* a sender who holds something, but less than amount, is refused
C4_RefusedWithFunds ==
    /\ last.op = "NewTransaction" /\ last.err = "not enough funds"
    /\ TotalLocked(utxo, HashOf(last.from)) > 0

\* the transactions of the pool and of every stored block
StoredTxs ==
    {pool[id] : id \in DOMAIN pool} \cup
    UNION {{blocks[h].Transactions[i] : i \in 1..Len(blocks[h].Transactions)} :
              h \in DOMAIN blocks}

\* a transaction with the signature of every input emptied
Unsigned(tx) ==
    [tx EXCEPT !.Inputs =
        [i \in 1..Len(tx.Inputs) |-> [tx.Inputs[i] EXCEPT !.Signature = <<>>]]]

\* C5 as stated: every transaction of the pool or of a block has ID = Hash() of
\* the transaction as it is stored
C5_IDIsHashOfFinal == \A tx \in StoredTxs : tx.ID = Hash(tx)

\* C5: every transaction of the pool or of a block has for ID the hash of the
\* transaction with its ID and the signatures of its inputs emptied, which is
\* the transaction as it stood when the ID was assigned; for a coinbase
\* transaction that is Hash() of the stored transaction
C5_IDIsHashBeforeSigning ==
    \A tx \in StoredTxs :
        /\ tx.ID = Hash(Unsigned(tx))
        /\ IsCoinbase(tx) => tx.ID = Hash(tx)

\* a signed transaction is in a stored block
C5_SignedTxMined ==
    \E h \in DOMAIN blocks : \E i \in 1..Len(blocks[h].Transactions) :
        LET tx == blocks[h].Transactions[i]
        IN  ~IsCoinbase(tx) /\ Len(tx.Inputs[1].Signature) > 0

\* C6 as stated: the transaction NewTransaction has just signed with the
\* sender's key, its previous transactions all in the chain, verifies, whatever
\* (r, s) ecdsa.Sign returned
C6_SignThenVerify ==
    (last.op = "NewTransaction" /\ last.err = "") =>
        Verify(last.tx, PrevTXs(blocks, LastHash, last.tx)) = "true"

\* every reference of tx names an output of a transaction of prevTXs
Resolves(tx, prevTXs) == ~PrevMissing(tx, prevTXs) /\ ~PrevOutOfRange(tx, prevTXs)

\* the digest input i is to be signed over: the hash of the transaction with its
\* ID emptied, all input references and all outputs kept, every signature and
\* public key emptied but the public key of input i, which is the PubKeyHash of
\* the output input i references
ExpectedDigest(tx, i, prevTXs) ==
    LET ref == tx.Inputs[i]
        ins == [j \in 1..Len(tx.Inputs) |->
                   [ID |-> tx.Inputs[j].ID, Out |-> tx.Inputs[j].Out,
                    Signature |-> <<>>,
                    PubKey |-> IF j = i
                               THEN prevTXs[ref.ID].Outputs[ref.Out + 1].PubKeyHash
                               ELSE <<>>]]
    IN  Sha256(<< <<"gobTx", <<>>, ins, tx.Outputs>> >>)

\* input i carries a signature that the key of its own PubKey has produced over
\* the expected digest
ValidlySigned(tx, i, prevTXs) ==
    \E k \in Keys :
        /\ NewKeyPair(k).PublicKey = tx.Inputs[i].PubKey
        /\ \E sig \in signed :
              /\ sig[1] = k
              /\ sig[2] = ExpectedDigest(tx, i, prevTXs)
              /\ Bytes(sig[3]) \o Bytes(sig[4]) = tx.Inputs[i].Signature

\* some key has signed the transaction's content for every input
ContentSigned(tx, prevTXs) ==
    /\ Resolves(tx, prevTXs)
    /\ \A i \in 1..Len(tx.Inputs) :
          \E sig \in signed : sig[2] = ExpectedDigest(tx, i, prevTXs)

\* the IDs of the chain's transactions, and one the chain does not hold
ChainIDs ==
    LET txs == ChainTxs(blocks, LastHash)
    IN  {txs[i].ID : i \in 1..Len(txs)}
UnknownID == Sha256(<< <<"str", "unknown">> >>)

\* the transactions that differ from tx in one output value, one output
\* recipient or one input reference
Tampered(tx) ==
    {[tx EXCEPT !.Outputs[k].Value = @ + 1] : k \in 1..Len(tx.Outputs)} \cup
    {[tx EXCEPT !.Outputs[k].PubKeyHash = HashOf(w)] :
        <<k, w>> \in {p \in (1..Len(tx.Outputs)) \X Keys :
                         HashOf(p[2]) # tx.Outputs[p[1]].PubKeyHash}} \cup
    {[tx EXCEPT !.Inputs[p[1]].Out = p[2]] :
        p \in {q \in (1..Len(tx.Inputs)) \X (0..2) : q[2] # tx.Inputs[q[1]].Out}} \cup
    {[tx EXCEPT !.Inputs[p[1]].ID = p[2]] :
        p \in {q \in (1..Len(tx.Inputs)) \X (ChainIDs \cup {UnknownID}) :
                  q[2] # tx.Inputs[q[1]].ID}}

\* the signed transactions of the pool and the blocks that verify against the chain
VerifiedTxs ==
    {tx \in StoredTxs :
        ~IsCoinbase(tx) /\ Verify(tx, PrevTXs(blocks, LastHash, tx)) = "true"}

\* the changed copies of verified transactions whose content no key has signed
Forgeries ==
    {t \in UNION {Tampered(tx) : tx \in VerifiedTxs} :
        ~ContentSigned(t, PrevTXs(blocks, LastHash, t))}

C8_MineBlockExtendsTip ==
    /\ []((last.op = "MineBlock" /\ last.err = "" /\ last.clean) =>
             /\ last.block.Hash \in DOMAIN blocks
             /\ blocks[last.block.Hash] = last.block
             /\ last.block.PrevHash = last.tip
             /\ last.block.Height = blocks[last.tip].Height + 1
             /\ last.block.Transactions = last.txs
             /\ lh = last.block.Hash
             /\ LastHash = last.block.Hash)
    /\ [][(last'.op = "MineBlock" /\ last'.err = "" /\ last'.clean) =>
             /\ lh = last'.tip
             /\ last'.block.Hash \notin DOMAIN blocks
             /\ \A h \in DOMAIN blocks : h \in DOMAIN blocks' /\ blocks'[h] = blocks[h]
             /\ DOMAIN blocks' = DOMAIN blocks \cup {last'.block.Hash}
             /\ GetBestHeight(blocks', lh') = GetBestHeight(blocks, lh) + 1]_vars

\* an undisturbed MineBlock has stored a block of height 2 with a signed
\* transaction in it
C8_SecondBlockMined ==
    /\ last.op = "MineBlock" /\ last.err = "" /\ last.clean
    /\ last.block.Height = 2
    /\ Len(last.block.Transactions) >= 2

\* C9 as stated: in every state lh names a stored block at least as high as
\* every stored block, and no step lowers the best height
C9_LhNamesHighest ==
    /\ [](lh \in DOMAIN blocks /\
           \A h \in DOMAIN blocks : blocks[lh].Height >= blocks[h].Height)
    /\ [][GetBestHeight(blocks', lh') >= GetBestHeight(blocks, lh)]_vars

\* the outcome of VerifyTransaction that ends MineBlock's loop over txs: "true"
\* when every transaction verifies
FirstFailure(bs, tip, txs) ==
    LET stop == {i \in 1..Len(txs) : VerifyTransaction(bs, tip, txs[i]) # "true"}
    IN  IF stop = {} THEN "true"
        ELSE VerifyTransaction(bs, tip, txs[CHOOSE i \in stop : \A j \in stop : i <= j])

C11_AddBlockIdempotent ==
    [][last'.op = "AddBlock" =>
          /\ last'.block.Hash \in DOMAIN blocks'
          /\ last'.block.Hash \in DOMAIN blocks =>
                /\ blocks' = blocks
                /\ lh' = lh
                /\ LastHash' = LastHash
                /\ utxo' = utxo]_vars

\* a block is offered whose hash is stored, with contents other than the stored
\* block's and a height above the tip's
C11_KnownHashOtherBlock ==
    /\ last.op = "AddBlock"
    /\ last.err = "known"
    /\ last.block # blocks[last.block.Hash]
    /\ last.block.Height > blocks[lh].Height

\* C12: AddBlock of a block whose hash is not stored writes the block under its
\* hash and modifies no other stored block; it sets lh and LastHash to the
\* block's hash when the block's height is above the tip's, and leaves both as
\* they were when it is not (equal height included)
C12_AddBlockEffect ==
    [][(last'.op = "AddBlock" /\ last'.block.Hash \notin DOMAIN blocks) =>
          LET b == last'.block
          IN  /\ DOMAIN blocks' = DOMAIN blocks \cup {b.Hash}
              /\ blocks'[b.Hash] = b
              /\ \A h \in DOMAIN blocks : blocks'[h] = blocks[h]
              /\ IF b.Height > blocks[lh].Height
                 THEN lh' = b.Hash /\ LastHash' = b.Hash
                 ELSE lh' = lh /\ LastHash' = LastHash]_vars

\* a block as high as the tip has been added and the tip is the one it was
C12_EqualHeightKeepsTip ==
    /\ last.op = "AddBlock"
    /\ last.err = ""
    /\ last.block.Hash \in DOMAIN blocks
    /\ last.block.Height = blocks[last.tip].Height
    /\ lh = last.tip
    /\ LastHash = last.tip

\* C13: in every state of a node, the states between two handlers of a chain
\* download included, the store holds the block lh names and every block that
\* is reached from it through PrevHash, so that an iteration from the tip reads
\* no missing block
C13_ChainStored ==
    /\ lh \in DOMAIN blocks
    /\ ~Iterate(blocks, lh).broken
    /\ ~Iterate(blocks, LastHash).broken

\* C14: in every store state reached through Init, MineBlock and AddBlock an
\* iteration from the tip ends by producing a block with an empty PrevHash, and
\* GetBlockHashes returns the hashes of the path from the tip to that block: the
\* tip's first, each block's predecessor next, no hash twice
C14_IterationReachesGenesis ==
    LET got == GetBlockHashes(blocks, LastHash)
        hashes == got.hashes
        n == Len(hashes)
    IN  /\ ~got.panic
        /\ n > 0
        /\ hashes[1] = lh
        /\ \A i \in 1..n : hashes[i] \in DOMAIN blocks
        /\ \A i \in 1..(n - 1) : blocks[hashes[i]].PrevHash = hashes[i + 1]
        /\ Len(blocks[hashes[n]].PrevHash) = 0
        /\ \A i, j \in 1..n : hashes[i] = hashes[j] => i = j

\* C15: in every state the walk from the tip through PrevHash ends at a block of
\* height 0 with an empty PrevHash, no other block of the walk has height 0 or
\* an empty PrevHash, and every other block is one higher than its predecessor
C15_HeightsAlongWalk ==
    LET w == Iterate(blocks, lh)
        n == Len(w.blocks)
    IN  /\ ~w.broken
        /\ n > 0
        /\ w.blocks[n].Height = 0
        /\ Len(w.blocks[n].PrevHash) = 0
        /\ \A i \in 1..(n - 1) :
              /\ w.blocks[i].Height # 0
              /\ Len(w.blocks[i].PrevHash) # 0
              /\ w.blocks[i].Height = w.blocks[i + 1].Height + 1

\* C16: in every state every block B reachable from the tip, mined here or
\* received, carries the hash of its own proof-of-work data and that hash is
\* below the target: B.Hash = SHA256(InitData(B.Nonce)), NewProof(B).Validate()
C16_ProofOfWorkValid ==
    LET w == Iterate(blocks, lh).blocks
    IN  \A i \in 1..Len(w) :
           /\ w[i].Hash = Sha256(InitData(w[i].PrevHash, w[i].Transactions, w[i].Nonce))
           /\ Validate(w[i])

\* C17: in every state every transaction that is not a coinbase and is held by a
\* block reachable from the tip verifies against the chain: the transactions its
\* inputs reference are found and Verify returns true
C17_ChainTransactionsVerify ==
    LET txs == ChainTxs(blocks, lh)
    IN  \A i \in 1..Len(txs) :
           ~IsCoinbase(txs[i]) => VerifyTransaction(blocks, lh, txs[i]) = "true"

\* the blocks the proof-of-work search has sealed: those MineBlock has written
\* here and those of the peer's chain
Sealed(b) == b = CreateBlock(b.Transactions, b.PrevHash, b.Height)
SealedBlocks == {blocks[h] : h \in {x \in DOMAIN blocks : Sealed(blocks[x])}}
WithNonce(b, nonce) == [b EXCEPT !.Nonce = nonce]

\* C18 as stated: the nonce of a sealed block raised by 1 makes Validate false
C18_NextNonceInvalid ==
    \A b \in SealedBlocks : ~Validate(WithNonce(b, b.Nonce + 1))

\* C18, amended: a sealed block validates and every nonce below its own makes
\* Validate false; with the nonce raised by 1 Validate is true exactly when the
\* hash of the data with that nonce is below the target, the stored hash having
\* no part in it
C18_ValidateRecomputes ==
    \A b \in SealedBlocks :
       /\ Validate(b)
       /\ \A n \in 0..(b.Nonce - 1) : ~Validate(WithNonce(b, n))
       /\ Validate(WithNonce(b, b.Nonce + 1)) =
             (HashInt(Sha256(InitData(b.PrevHash, b.Transactions, b.Nonce + 1))) < Target)

\* the store holds a sealed block that a raised nonce invalidates, and one, found
\* after a search past nonce 0, that it does not
C18_BothOutcomes ==
    /\ \E b \in SealedBlocks : ~Validate(WithNonce(b, b.Nonce + 1))
    /\ \E b \in SealedBlocks : b.Nonce > 0 /\ Validate(WithNonce(b, b.Nonce + 1))

\* ------------------------------------------------ claims on the Merkle tree

\* the construction in the words of the specification: the adjacent pairs of a
\* level hashed left to right, a last node without a partner paired with itself
RECURSIVE PairUp(_)
PairUp(level) ==
    IF Len(level) = 0 THEN <<>>
    ELSE IF Len(level) = 1 THEN <<Sha256(level[1] \o level[1])>>
    ELSE <<Sha256(level[1] \o level[2])>> \o PairUp(SubSeq(level, 3, Len(level)))
RECURSIVE RootOf(_)
RootOf(level) == IF Len(level) = 1 THEN level[1] ELSE RootOf(PairUp(level))

\* C19: NewMerkleTree over a non-empty list returns the root obtained by hashing
\* every leaf and then, while a level has more than one node, duplicating the
\* last node of an odd level and hashing each adjacent pair; the root is fixed
\* by the list; on the empty list the call is an error and gives no root
C19_MerkleRoot ==
    last.op = "NewMerkleTree" =>
       IF Len(last.txs) = 0
       THEN last.err = "panic" /\ last.tip = <<>>
       ELSE /\ last.err = ""
            /\ last.tip = RootOf([i \in 1..Len(last.txs) |-> Sha256(last.txs[i])])
            /\ last.tip = NewMerkleTree(last.txs)

\* a tree over five leaves: an odd first level and, after it, an odd level of
\* three nodes
C19_OddLevels ==
    /\ last.op = "NewMerkleTree"
    /\ last.err = ""
    /\ Len(last.txs) = 5
    /\ last.txs[4] # last.txs[5]

\* ------------------------------------------------------ claims on the sync

\* the exchange is over and this node holds the central node's chain: no request
\* is left, the last handler was the HandleBlock that rebuilt the index, the best
\* heights are equal, every hash of the central node's GetBlockHashes is stored
\* here with its block, the tips are the same, and the index is the rebuilt one
Synced ==
    LET theirs == GetBlockHashes(central.blocks, central.lh).hashes
    IN  /\ msgs = {}
        /\ blocksInTransit = <<>>
        /\ last.op = "HandleBlock"
        /\ last.err = "Reindex"
        /\ GetBestHeight(blocks, lh) = GetBestHeight(central.blocks, central.lh)
        /\ \A i \in 1..Len(theirs) :
              theirs[i] \in DOMAIN blocks /\ blocks[theirs[i]] = central.blocks[theirs[i]]
        /\ lh = central.lh
        /\ LastHash = central.lh
        /\ utxo = FindUTXO(blocks, LastHash)

\* C20: with the central node holding a chain of best height H and this node a
\* lower one, every dial succeeding and no other request sent, the exchange that
\* the node's version starts (version, version, getblocks, inv, then getdata and
\* block for each hash) ends: from some state on no request is left, the node's
\* best height is H, it stores every block of the central node's chain, its tip
\* is the central node's, and its index has been rebuilt
C20_SyncCompletes == <>[]Synced

\* the node that started from the genesis block alone has downloaded a chain of
\* height 3
C20_SyncedFromGenesis ==
    /\ Synced
    /\ blocks[lh].Height = 3
    /\ Cardinality(DOMAIN blocks) = 4
    /\ NodeIsKnown(central.KnownNodes, nodeAddress)

\* ------------------------------------------------ FindSpendableOutputs (C29)

\* the output the index holds at a picked (txID, outIdx)
PickedOutput(u, p) == u[p[1]][p[2] + 1]

\* the value of the first n picked outputs
RECURSIVE PickedValue(_, _, _)
PickedValue(u, picked, n) ==
    IF n = 0 THEN 0
    ELSE PickedValue(u, picked, n - 1) + PickedOutput(u, picked[n]).Value

\* C29: FindSpendableOutputs(pubKeyHash, amount) returns an amount and a
\* selection such that every selected output is in the index and locked with
\* pubKeyHash, none is selected twice, accumulated is the sum of the selected
\* values, accumulated >= amount whenever the indexed outputs locked with
\* pubKeyHash are worth at least amount, and without the output selected last
\* the selection is worth less than amount
C29_FindSpendableOutputs ==
    last.op = "NewTransaction" =>
        LET h == HashOf(last.from)
            picked == last.picked
            n == Len(picked)
        IN  /\ \A i \in 1..n :
                 /\ picked[i][1] \in DOMAIN utxo
                 /\ picked[i][2] + 1 \in 1..Len(utxo[picked[i][1]])
                 /\ IsLockedWithKey(PickedOutput(utxo, picked[i]), h)
            /\ \A i, j \in 1..n : picked[i] = picked[j] => i = j
            /\ last.acc = PickedValue(utxo, picked, n)
            /\ TotalLocked(utxo, h) >= last.amount => last.acc >= last.amount
            /\ n > 0 => PickedValue(utxo, picked, n - 1) < last.amount

\* a scan that selected two outputs of the sender and passed the amount
C29_TwoOutputsSelected ==
    /\ last.op = "NewTransaction" /\ last.err = ""
    /\ Len(last.picked) = 2
    /\ last.acc > last.amount

\* ------------------------------------------- signature and key halves (C30)

\* buf splits at half its length into two halves of the same width that denote
\* the pair (a, b)
SplitsInto(buf, a, b) ==
    /\ Len(FirstHalf(buf)) = Len(SecondHalf(buf))
    /\ SetBytes(FirstHalf(buf)) = a
    /\ SetBytes(SecondHalf(buf)) = b

\* C30: the signature Sign stores for an input splits at half its length into
\* the (r, s) ecdsa.Sign returned for that input, and the public key stored with
\* the input splits at half its length into the (X, Y) of the signer's key
C30_HalvesRecoverPairs ==
    (last.op = "NewTransaction" /\ last.err = "") =>
        \A i \in 1..Len(last.tx.Inputs) :
            LET in == last.tx.Inputs[i]
                key == GetWallet(last.from).PrivateKey
                digest == SigDigest(last.tx, i, PrevTXs(blocks, LastHash, last.tx))
            IN  /\ SplitsInto(in.PubKey, KeyX(key), KeyY(key))
                /\ \E g \in signed :
                     /\ g[1] = key /\ g[2] = digest
                     /\ SplitsInto(in.Signature, g[3], g[4])

\* ------------------------------------------------------ Update (C28)

\* no output is referenced by two inputs of the chain
NoDoubleSpend ==
    LET txs == ChainTxs(blocks, LastHash)
        ins == Flatten([i \in 1..Len(txs) |->
                   IF IsCoinbase(txs[i]) THEN <<>>
                   ELSE [k \in 1..Len(txs[i].Inputs) |->
                            <<txs[i].Inputs[k].ID, txs[i].Inputs[k].Out>>]])
    IN  \A i, j \in 1..Len(ins) : ins[i] = ins[j] => i = j

\* C28: on a node whose index started as Reindex of the chain and that has
\* called Update with every block appended since, the index after an Update that
\* completed is the index Reindex computes on the chain, also when the outputs
\* of one transaction are spent one after the other (no output spent twice)
C28_UpdateEqualsReindex ==
    (last.op = "Update" /\ last.err = "" /\ NoDoubleSpend) =>
        utxo = Reindexed(blocks, LastHash)

\* ------------------------------------------------------ the tx handler (C21)

\* the index holds an entry for output idx of the transaction id
InIndex(u, id, idx) == id \in DOMAIN u /\ idx < Len(u[id])

\* HandleTx has run MineTx to its end on a memoryPool of two transactions that
\* both verified
TwoValidMined ==
    /\ last.op = "HandleTx"
    /\ last.path = "mine"
    /\ last.err = ""
    /\ last.pooled = 2
    /\ Len(last.txs) = 3

\* the tip is the block MineTx mined one above the old tip; it holds the two
\* pooled transactions and then one coinbase paying miningReward to the miner
\* address; the memoryPool is empty and every output of the block is in the
\* index under its transaction ID and output index
MinedOnTip ==
    /\ lh = last.block.Hash
    /\ LastHash = lh
    /\ lh \in DOMAIN blocks
    /\ blocks[lh] = last.block
    /\ blocks[lh].Height = blocks[last.tip].Height + 1
    /\ blocks[lh].PrevHash = last.tip
    /\ last.tx \in {last.txs[1], last.txs[2]}
    /\ last.txs[1] # last.txs[2]
    /\ ~IsCoinbase(last.txs[1])
    /\ ~IsCoinbase(last.txs[2])
    /\ IsCoinbase(last.txs[3])
    /\ last.txs[3].Outputs = CoinbaseTx(minerAddress, <<>>).Outputs
    /\ last.txs[3].Outputs[1].Value = miningReward
    /\ DOMAIN memoryPool = {}
    /\ \A i \in 1..3 : \A k \in 1..Len(last.txs[i].Outputs) :
          <<last.txs[i].ID, k - 1, last.txs[i].Outputs[k]>> \in IndexOutputs(utxo)

\* C21: on a node that is not the central node and has a miner address, after
\* two valid transactions have come in by tx messages the chain has a new tip
\* one above the old height, whose block holds both transactions and one
\* coinbase paying the mining reward to the miner address, the memoryPool is
\* empty, the index holds the new outputs and holds no output that an input of
\* the two transactions references
C21_TwoValidTxsMined ==
    TwoValidMined =>
        /\ MinedOnTip
        /\ \A i \in 1..2 : \A k \in 1..Len(last.txs[i].Inputs) :
              ~InIndex(utxo, last.txs[i].Inputs[k].ID, last.txs[i].Inputs[k].Out)

\* what holds of every such call: all of the claim but the spent outputs
MinedBlockEffect == TwoValidMined => MinedOnTip

\* ------------------------------------------------------ the version handler (C22)

\* the list without the address addr
Without(nodes, addr) == SelectSeq(nodes, LAMBDA node : node # addr)

\* what the version handler issues on a message of the sender s advertising h
\* when the local best height is best: getblocks to a higher s, version to a
\* lower one, nothing to an equal one
VersionAnswer(s, h, best) ==
    IF best < h THEN <<SendGetBlocks(s, nodeAddress)>>
    ELSE IF best > h THEN <<SendVersion(s, nodeAddress, best)>>
    ELSE <<>>

\* HandleVersion has issued exactly the answer, and a version it issued
\* advertises more than the sender did, so that the sender's handler answers it
\* with getblocks and not with another version
AnswersVersion ==
    LET m == last.payload
    IN  /\ last.out = VersionAnswer(m.AddrFrom, m.BestHeight, GetBestHeight(blocks, lh))
        /\ \A i \in 1..Len(last.out) :
              /\ last.out[i].to = m.AddrFrom
              /\ last.out[i].cmd = "version" => last.out[i].BestHeight > m.BestHeight

\* C22 as stated: the version handler issues exactly getblocks to a higher
\* sender, exactly version to a lower one and nothing to an equal one, and the
\* sender is appended to the list if and only if it was not in the list when
\* the message came in: a sender that was in it is not appended
C22_AppendedIffUnknown ==
    last.op = "HandleVersion" =>
        /\ AnswersVersion
        /\ IF NodeIsKnown(last.nodes, last.payload.AddrFrom)
           THEN KnownNodes \in {last.nodes, Without(last.nodes, last.payload.AddrFrom)}
           ELSE KnownNodes = Append(last.nodes, last.payload.AddrFrom)

\* C22, amended: the version handler issues exactly getblocks to a higher
\* sender, exactly version to a lower one and nothing to an equal one; the
\* sender is appended if and only if it is not in the list once the answer has
\* been sent, that is if it was not in the list or the connection for the
\* answer was refused, in which case it moves to the end of the list; a version
\* answer advertises more than the sender did
C22_AppendedIffNotInList ==
    last.op = "HandleVersion" =>
        /\ AnswersVersion
        /\ KnownNodes =
              IF /\ NodeIsKnown(last.nodes, last.payload.AddrFrom)
                 /\ last.payload.AddrFrom \notin last.down
              THEN last.nodes
              ELSE Append(Without(last.nodes, last.payload.AddrFrom),
                          last.payload.AddrFrom)

\* a sender that was first in the list refused the answer and is now last
C22_RefusedSenderMovedLast ==
    /\ last.op = "HandleVersion"
    /\ Len(last.out) = 1
    /\ last.payload.AddrFrom \in last.down
    /\ last.nodes = <<centralAddress, walletAddress>>
    /\ KnownNodes = <<walletAddress, centralAddress>>

\* ------------------------------------------------------ the central relay (C23)

\* the addresses in the list nodes
Addresses(nodes) == {nodes[i] : i \in 1..Len(nodes)}

\* the addresses the central node tells of a transaction that came from sender
RelayTargets(nodes, sender) == Addresses(nodes) \ {centralAddress, sender}

\* C23: the tx handler on the central node puts the transaction in its
\* memoryPool and issues one inv("tx", [id]) for every entry of its list other
\* than its own address and the sender's, to no other address, and does not
\* take the mining path: the transaction stays in the memoryPool
C23_CentralRelaysTx ==
    last.op = "CentralHandleTx" =>
        LET targets == RelayTargets(last.nodes, last.payload.AddrFrom)
            id == HexEncodeToString(last.tx.ID)
        IN  /\ id \in DOMAIN central.memoryPool
            /\ central.memoryPool[id] = last.tx
            /\ {last.out[i].to : i \in 1..Len(last.out)} = targets
            /\ \A i \in 1..Len(last.out) :
                  last.out[i] =
                      SendInv(last.out[i].to, centralAddress, "tx", <<last.tx.ID>>)
            /\ Len(last.out) =
                  Len(SelectSeq(last.nodes, LAMBDA node : node \in targets))
            /\ \A a \in targets \ last.down :
                  SendInv(a, centralAddress, "tx", <<last.tx.ID>>) \in msgs
            /\ last.path = "relay"
            /\ last.pooled = Cardinality(DOMAIN central.memoryPool)

\* the central node has relayed a transaction of the wallet node to the third
\* node only
C23_RelayedToOtherNode ==
    /\ last.op = "CentralHandleTx"
    /\ last.payload.AddrFrom = walletAddress
    /\ last.nodes = <<centralAddress, nodeAddress, walletAddress>>
    /\ last.out = <<SendInv(nodeAddress, centralAddress, "tx", <<last.tx.ID>>)>>
    /\ last.out[1] \in msgs

\* ------------------------------------------------------ when a node mines (C24)

\* the tx handler took the mining path
Mines == last.path = "mine"

\* C24: the tx handler starts the mining path exactly when, the transaction
\* inserted, the node is not the central node, has a miner address and holds at
\* least maxTxLimit transactions in its memoryPool
C24_MinesExactlyWhen ==
    last.op = "HandleTx" =>
        (Mines <=> /\ nodeAddress # centralAddress
                   /\ Len(minerAddress) > 0
                   /\ last.pooled >= maxTxLimit)

\* what holds of every call: a node without a miner address or with fewer than
\* maxTxLimit transactions does not mine, and a node whose list is not empty
\* and does not begin with its own address mines when it has both
MinesWhenListed ==
    last.op = "HandleTx" =>
        /\ Mines => Len(minerAddress) > 0 /\ last.pooled >= maxTxLimit
        /\ (Len(last.nodes) > 0 /\ last.nodes[1] # nodeAddress) =>
              (Mines <=> Len(minerAddress) > 0 /\ last.pooled >= maxTxLimit)
        /\ Len(last.nodes) = 0 => last.err = "panic" /\ ~Mines

\* ------------------------------------------------------ dial failure (C25)

\* the handlers of this node that call SendData at most once and do not touch
\* the list themselves
OneSend == {"StartServer", "HandleInv", "HandleGetBlocks", "HandleGetData", "HandleBlock"}

\* the requests in flight without the one the handler of the step has read
Unread == IF last'.op = "StartServer" THEN msgs ELSE msgs \ {last'.payload}

\* the step is taken by a handler of this node, which records itself in last
\* (a handler of the central node leaves last as it is)
NodeStep ==
    \/ last' # last
    \/ /\ last'.op # "StartServer"
       /\ last'.payload \in msgs
       /\ last'.payload \notin msgs'

\* the step is one such handler calling SendData(addr, data) once: a refused
\* dial removes every entry addr from the list, keeps the others in their
\* order and delivers nothing; an accepted one leaves the list as it is and
\* delivers the request; the memoryPool, and the chain, the index and
\* blocksInTransit where the handler itself does not write them, stay the same
OneSendData ==
    (NodeStep /\ last'.op \in OneSend /\ Len(last'.out) = 1) =>
        /\ IF last'.out[1].to \in last'.down
           THEN /\ KnownNodes' = Without(KnownNodes, last'.out[1].to)
                /\ msgs' = Unread
           ELSE /\ KnownNodes' = KnownNodes
                /\ msgs' = Unread \cup {last'.out[1]}
        /\ UNCHANGED <<memoryPool, minerAddress, central>>
        /\ last'.op # "HandleBlock" => UNCHANGED <<blocks, lh, LastHash, utxo>>
        /\ last'.op \notin {"HandleInv", "HandleBlock"} => UNCHANGED blocksInTransit

\* C25: a SendData that cannot open the connection removes every occurrence of
\* the address from the list, keeps the other entries in their order, sends
\* nothing and changes nothing else; a SendData that connects leaves the list
\* unchanged
C25_SendDataDropsRefused == [][OneSendData]_vars

\* a handler found the central node, listed twice, refusing the connection, and
\* both entries are gone while the other entries are kept in their order
C25_BothEntriesDropped ==
    /\ last.op \in OneSend
    /\ last.down = {centralAddress}
    /\ Len(SelectSeq(last.nodes, LAMBDA node : node = centralAddress)) = 2
    /\ Len(last.nodes) > 2
    /\ KnownNodes = Without(last.nodes, centralAddress)

\* ------------------------------------------------------ the memoryPool (C26)

\* every key of the pool mp is the hex of the ID of the transaction under it
KeyedByID(mp) == \A k \in DOMAIN mp : k = HexEncodeToString(mp[k].ID)

\* the hex IDs of the transactions, coinbase aside, of the blocks the step wrote
MinedKeys ==
    UNION {{HexEncodeToString(blocks'[h].Transactions[i].ID) :
               i \in {j \in 1..Len(blocks'[h].Transactions) :
                         ~IsCoinbase(blocks'[h].Transactions[j])}} :
           h \in (DOMAIN blocks') \ DOMAIN blocks}

\* a step that changes the memoryPool of this node is the tx handler: it puts
\* the transaction of the message in, and what has left the pool is exactly
\* what the blocks it mined hold
PoolStep ==
    memoryPool' # memoryPool =>
        LET mp == Pooled(memoryPool, last'.tx)
        IN  /\ last'.op = "HandleTx"
            /\ (DOMAIN memoryPool') \subseteq DOMAIN mp
            /\ \A k \in DOMAIN memoryPool' : memoryPool'[k] = mp[k]
            /\ (DOMAIN mp) \ DOMAIN memoryPool' = MinedKeys
            /\ MinedKeys # {} => last'.path = "mine"

\* a step that changes the memoryPool of the central node is its tx handler
\* putting the transaction of the message in
CentralPoolStep ==
    central'.memoryPool # central.memoryPool =>
        /\ last'.op = "CentralHandleTx"
        /\ central'.memoryPool = Pooled(central.memoryPool, last'.tx)

\* every key of a memoryPool is the hex of the ID of its transaction
PoolsKeyedByID == KeyedByID(memoryPool) /\ KeyedByID(central.memoryPool)

Outstanding ==
    {r \in msgs : \/ r.cmd = "getdata" /\ r.Type = "block" /\ r.AddrFrom = nodeAddress
                  \/ r.cmd = "block" /\ r.to = nodeAddress}

\* C27: whatever the order in which the handlers of the connections run,
\* blocksInTransit lets one block be delivered at a time: at most one
\* getdata("block") of this node is outstanding at any moment
C27_OneBlockInTransit == Cardinality(Outstanding) <= 1


\* ------------------------------------------- claims on the Merkle commitment

\* the non-empty lists of leaves other than the one the last call was given
OtherLists == {other \in LeafLists : Len(other) > 0 /\ other # last.txs}

\* C40 as stated: no other non-empty list of leaves, of whatever length, has the
\* root the call returned
C40_RootCommitsList ==
    (last.op = "NewMerkleTree" /\ last.err = "") =>
        \A other \in OtherLists : NewMerkleTree(other) # last.tip

\* C40: two different non-empty lists of leaves of the same length never have
\* the same root, while a list of odd length of three or more and that list
\* with its last leaf repeated once have the same root
C40_RootCommitsSameLength ==
    (last.op = "NewMerkleTree" /\ last.err = "") =>
        /\ \A other \in OtherLists :
              Len(other) = Len(last.txs) => NewMerkleTree(other) # last.tip
        /\ (Len(last.txs) % 2 = 1 /\ Len(last.txs) >= 3) =>
              NewMerkleTree(Append(last.txs, last.txs[Len(last.txs)])) = last.tip

\* a tree over three leaves of which the last two differ: the list with the
\* third leaf repeated is another list and has the same root
C40_OddListAndRepeat ==
    /\ last.op = "NewMerkleTree"
    /\ last.err = ""
    /\ Len(last.txs) = 3
    /\ last.txs[2] # last.txs[3]
    /\ Append(last.txs, last.txs[3]) \in OtherLists
    /\ NewMerkleTree(Append(last.txs, last.txs[3])) = last.tip


\* ------------------------------------------- claims on the two tip pointers

BlockExchange ==
    {m \in msgs : \/ m.cmd = "getdata" /\ m.Type = "block" /\ m.to = centralAddress
                  \/ m.cmd = "block" /\ m.to = nodeAddress}
ExchangedHash(m) == IF m.cmd = "getdata" THEN m.ID ELSE m.Block.Hash

\* the hashes of the inventory not yet added, in the order of their requests:
\* the one requested and not yet answered or handled, then blocksInTransit
ToAdd ==
    IF BlockExchange = {} THEN blocksInTransit
    ELSE <<ExchangedHash(CHOOSE m \in BlockExchange : TRUE)>> \o blocksInTransit

\* the handler that made this step, by the request it took
TookInv == \E m \in msgs \ msgs' : m.cmd = "inv" /\ m.Type = "block" /\ m.to = nodeAddress
TookBlock == \E m \in msgs \ msgs' : m.cmd = "block" /\ m.to = nodeAddress
SentGetData ==
    {m \in msgs' \ msgs : m.cmd = "getdata" /\ m.Type = "block" /\ m.AddrFrom = nodeAddress}

\* one step of the download: HandleInv requests the first hash alone, HandleBlock
\* adds the block requested and requests the next hash or, when none is left,
\* rebuilds the index; no other step requests a block or rebuilds the index
DownloadStep ==
    /\ TookInv =>
          /\ ToAdd = <<>>
          /\ ToAdd' = last'.payload.Items
          /\ SentGetData = {SendGetData(centralAddress, nodeAddress, "block",
                                        last'.payload.Items[1])}
          /\ last'.err # "Reindex"
    /\ TookBlock =>
          /\ ToAdd # <<>>
          /\ last'.block.Hash = ToAdd[1]
          /\ ToAdd[1] \in DOMAIN blocks'
          /\ ToAdd' = Tail(ToAdd)
          /\ SentGetData = IF ToAdd' = <<>> THEN {}
                           ELSE {SendGetData(centralAddress, nodeAddress, "block", ToAdd'[1])}
          /\ (last'.err = "Reindex") <=> (ToAdd' = <<>>)
          /\ (ToAdd' = <<>>) => (blocksInTransit' = <<>> /\ utxo' = Reindexed(blocks', LastHash'))
    /\ ~TookInv /\ ~TookBlock =>
          /\ SentGetData = {}
          /\ ToAdd' = ToAdd
    /\ ~(TookBlock /\ ToAdd' = <<>>) => utxo' = utxo

\* C31: with handlers run one at a time and a peer that answers, an inventory
\* of n distinct block hashes h1 .. hn from the peer causes exactly n getdata
\* requests to that peer, for h1 .. hn in this order, each but the first sent by
\* the handler that has added the block before it; the index is rebuilt once, by
\* the handler that adds the block of hn, and blocksInTransit is then empty
C31_DownloadInOrder ==
    /\ [](Cardinality(BlockExchange) <= 1)
    /\ [][DownloadStep]_vars

\* an inventory of four hashes has been downloaded: the index was rebuilt by the
\* handler of the block of the fourth, and nothing is left in transit
C31_FourBlocksDownloaded ==
    /\ Len(GetBlockHashes(central.blocks, central.lh).hashes) = 4
    /\ last.op = "HandleBlock"
    /\ last.err = "Reindex"
    /\ last.block.Hash = GenesisBlock.Hash
    /\ blocksInTransit = <<>>
    /\ BlockExchange = {}
    /\ \A h \in DOMAIN central.blocks : h \in DOMAIN blocks


\* ------------------------------------- claims on the whole of the mining path

\* C33 as stated: the mining path of the tx handler never ends the node, whatever
\* transactions the memoryPool holds, one whose input names a transaction that
\* is not in the chain among them; it mines what verifies and leaves in the
\* memoryPool only transactions that do not verify
C33_FailingTxDiscarded ==
    (last.op = "HandleTx" /\ last.path = "mine") =>
        /\ last.err # "panic"
        /\ ~exited
        /\ \A k \in DOMAIN memoryPool :
              VerifyTransaction(blocks, LastHash, memoryPool[k]) # "true"


\* C32: a call of MineTx during which no tx message arrives ends: it mines at
\* most as many blocks as transactions were pooled when it began, so it repeats
\* at most that number of times plus one; every block it mines takes at least
\* one transaction out of the memoryPool; and it returns only when the
\* memoryPool is empty or holds no transaction that verifies
C32_MineTxEnds ==
    (last.op = "HandleTx" /\ last.path = "mine") =>
        /\ last.acc <= last.pooled
        /\ Cardinality(DOMAIN memoryPool) <= last.pooled - last.acc
        /\ last.err = "" =>
              \A k \in DOMAIN memoryPool :
                 VerifyTransaction(blocks, LastHash, memoryPool[k]) = "false"

\* a call that repeated: of two pooled transactions it mined one in its first
\* pass and, the memoryPool still holding the other, found in its second pass
\* that it does not verify and returned
C32_SecondPassReturned ==
    /\ last.op = "HandleTx"
    /\ last.path = "mine"
    /\ last.err = ""
    /\ last.pooled = 2
    /\ last.acc = 1
    /\ Len(last.block.Transactions) = 2
    /\ last.block.Hash = lh
    /\ Cardinality(DOMAIN memoryPool) = 1


\* ------------------------------------------------ claims on the list of peers

\* the list is not empty and begins with the bootstrap address
BootstrapFirst(nodes) == Len(nodes) > 0 /\ nodes[1] = centralAddress

\* C34 as stated: the list of known peers of a node is never empty and always
\* begins with the bootstrap address localhost:3001, whatever dials have been
\* refused and whatever peers have been discovered: no step of a node whose
\* list begins with it leaves a list that does not
C34_BootstrapStaysFirst ==
    [][BootstrapFirst(KnownNodes) => BootstrapFirst(KnownNodes')]_vars


\* --------------------------------------------- claims on who spends an output

\* input i of tx carries the key that the output it references is locked to
SpendsOwn(tx, i) ==
    LET in == tx.Inputs[i]
        prev == FindTransaction(blocks, LastHash, in.ID)
    IN  /\ prev.found
        /\ in.Out >= 0
        /\ in.Out < Len(prev.tx.Outputs)
        /\ PublicKeyHash(in.PubKey) = prev.tx.Outputs[in.Out + 1].PubKeyHash

\* C35 as stated: a transaction that is not a coinbase is accepted by
\* VerifyTransaction, and so mined, only if every input carries the public key
\* whose hash the referenced output is locked with
C35_OnlyOwnerSpends ==
    \A id \in DOMAIN pool :
        (~IsCoinbase(pool[id]) /\ VerifyTransaction(blocks, LastHash, pool[id]) = "true") =>
            \A i \in 1..Len(pool[id].Inputs) : SpendsOwn(pool[id], i)


\* ------------------------------------------ claims on the ledger as a whole

\* C36 as stated: on a node whose blocks MineTx has produced from transactions
\* NewTransaction built, no output is referenced by more than one input of the
\* transactions of the chain from the tip, also when two of the transactions
\* were built on the same index before either was mined
C36_NoOutputSpentTwice ==
    (last.op = "HandleTx" /\ last.path = "mine" /\ last.err = "") => NoDoubleSpend


\* the number of coinbase transactions in the chain from the tip
Coinbases ==
    LET txs == ChainTxs(blocks, LastHash)
    IN  Cardinality({i \in 1..Len(txs) : IsCoinbase(txs[i])})

\* C37 as stated: after the tx handler has mined and rebuilt the index, the
\* values of the outputs in the index add up to the mining reward times the
\* number of coinbase transactions in the chain from the tip
C37_SupplyConserved ==
    (last.op = "HandleTx" /\ last.path = "mine" /\ last.err = "") =>
        SumValues(IndexOutputs(utxo)) = miningReward * Coinbases


\* ------------------------------------- tx handlers running side by side

\* HandleConnection runs every connection in a goroutine of its own and neither
\* memoryPool nor the chain handle is guarded: a tx handler can put its
\* transaction into the memoryPool and start MineTx while others are between
\* the steps of theirs.  A handler in MineTx is a record of mining: at "mine" it
\* has collected its transactions and MineBlock has read lh, at "mined"
\* MineBlock has written the block
MaxRacers == 2
MaxDeliveries == 3

Racer(txs) ==
    [txs |-> txs, lastHash |-> lh, lastHeight |-> blocks[lh].Height, clean |-> TRUE,
     pc |-> "mine", block |-> NoBlock]

\* MineTx from its first line to the View of MineBlock, c being what its loop
\* over the memoryPool collected and others the handlers already in MineTx
RaceMineTx(call, c, others) ==
    IF c.panic
    THEN /\ last' = [call EXCEPT !.path = "mine", !.err = "panic"]
         /\ mining' = others
         /\ rnd' = rnd
    ELSE IF Len(c.txs) = 0
    THEN /\ last' = [call EXCEPT !.path = "mine"]
         /\ mining' = others
         /\ rnd' = rnd
    ELSE /\ last' = [call EXCEPT !.path = "mine", !.txs = c.txs]
         /\ mining' = others \cup
                {Racer(c.txs \o <<CoinbaseTx(minerAddress, RandData(rnd + 1))>>)}
         /\ rnd' = rnd + 1

\* HandleTx on a miner that is not KnownNodes[0], up to the View of MineBlock
RaceHandleTx(m) ==
    /\ ~exited
    /\ m.to = nodeAddress
    /\ m.cmd = "tx"
    /\ Len(KnownNodes) > 0
    /\ nodeAddress # KnownNodes[1]
    /\ Cardinality(mining) < MaxRacers
    /\ memoryPool' = Pooled(memoryPool, DeserializeTransaction(m.Transaction))
    /\ msgs' = msgs \ {m}
    /\ IF Cardinality(DOMAIN memoryPool') >= maxTxLimit /\ Len(minerAddress) > 0
       THEN \E order \in Orders(DOMAIN memoryPool') :
               RaceMineTx(TxCall(m, DeserializeTransaction(m.Transaction), memoryPool'),
                          Collect(blocks, LastHash, memoryPool', order, 1), mining)
       ELSE /\ last' = TxCall(m, DeserializeTransaction(m.Transaction), memoryPool')
            /\ UNCHANGED <<mining, rnd>>
    /\ UNCHANGED <<chainVars, pool, signed, ntx, KnownNodes, blocksInTransit, central,
                   minerAddress>>
    /\ exited' = (last'.err = "panic")

\* the rest of MineBlock in a handler r: proof of work and the store
\* transaction that writes the block, lh and chain.LastHash
RaceMineBlock(r) ==
    /\ ~exited
    /\ r.pc = "mine"
    /\ blocks' = Put(blocks, CreateBlock(r.txs, r.lastHash, r.lastHeight + 1).Hash,
                     CreateBlock(r.txs, r.lastHash, r.lastHeight + 1))
    /\ lh' = CreateBlock(r.txs, r.lastHash, r.lastHeight + 1).Hash
    /\ LastHash' = lh'
    /\ mining' = (mining \ {r}) \cup
           {[r EXCEPT !.pc = "mined", !.block = blocks'[lh'], !.clean = (r.lastHash = lh)]}
    /\ last' = [Done("MineBlock", "") EXCEPT
                   !.txs = r.txs, !.block = blocks'[lh'], !.tip = r.lastHash,
                   !.clean = (r.lastHash = lh)]
    /\ UNCHANGED <<utxo, pool, signed, rnd, ntx, KnownNodes, blocksInTransit, msgs,
                   central, memoryPool, minerAddress, exited>>

\* the memoryPool without the transactions of a block
Unpooled(mp, block) ==
    [id \in (DOMAIN mp) \ {HexEncodeToString(block.Transactions[i].ID) :
                             i \in 1..Len(block.Transactions)} |-> mp[id]]

\* the rest of MineTx in a handler r whose block is written: Reindex, the
\* transactions of the block leave the memoryPool, the hash goes to the peers,
\* and MineTx is called again while the memoryPool holds something
RaceTell(r) ==
    /\ ~exited
    /\ r.pc = "mined"
    /\ utxo' = FindUTXO(blocks, LastHash)
    /\ memoryPool' = Unpooled(memoryPool, r.block)
    /\ msgs' = msgs \cup {SendInv(centralAddress, nodeAddress, "block", <<r.block.Hash>>)}
    /\ IF DOMAIN memoryPool' # {}
       THEN \E order \in Orders(DOMAIN memoryPool') :
               RaceMineTx([Done("MineTx", "") EXCEPT !.block = r.block],
                          Collect(blocks, LastHash, memoryPool', order, 1), mining \ {r})
       ELSE /\ last' = [Done("MineTx", "") EXCEPT !.block = r.block]
            /\ mining' = mining \ {r}
            /\ rnd' = rnd
    /\ UNCHANGED <<blocks, lh, LastHash, pool, signed, ntx, KnownNodes,
                   blocksInTransit, central, minerAddress>>
    /\ exited' = (last'.err = "panic")

\* a running miner on the chain of height 1, its memoryPool empty or holding
\* TxP, and up to MaxDeliveries tx messages of the wallet node on their way,
\* none of them a transaction the node has pooled already
InitRace ==
    /\ blocks = StoreOf(NetChain)
    /\ lh = NetBlock1.Hash
    /\ LastHash = NetBlock1.Hash
    /\ utxo = Reindexed(StoreOf(NetChain), NetBlock1.Hash)
    /\ pool = NoKeys
    /\ mining = {}
    /\ signed = NetSigned
    /\ rnd = 0
    /\ ntx = 0
    /\ blocksInTransit = <<>>
    /\ exited = FALSE
    /\ last = Done("StartServer", "")
    /\ KnownNodes = <<centralAddress>>
    /\ minerAddress = mineAddress
    /\ central = CentralNode(<<NetBlock2>> \o NetChain, <<centralAddress, nodeAddress, walletAddress>>)
    /\ \E txs \in SUBSET WalletTxs :
          /\ Cardinality(txs) \in 1..MaxDeliveries
          /\ msgs = {SendTx(nodeAddress, walletAddress, tx) : tx \in txs}
          /\ memoryPool \in {NoKeys} \cup
                (IF TxP \in txs THEN {} ELSE {Pooled(NoKeys, TxP)})

NextRace ==
    \/ \E m \in msgs : RaceHandleTx(m)
    \/ \E r \in mining : RaceMineBlock(r)
    \/ \E r \in mining : RaceTell(r)

SpecRace == InitRace /\ [][NextRace]_vars

\* the blocks this node has mined
MinedHere == {h \in DOMAIN blocks : h \notin DOMAIN StoreOf(NetChain)}

\* C38 as stated: however the tx handlers of a node interleave, no transaction
\* ID is in more than one block of the chain from the tip, and no two blocks
\* the node has mined have the same height
C38_MinedOnceEach ==
    /\ DistinctIDs
    /\ \A h1, h2 \in MinedHere : h1 # h2 => blocks[h1].Height # blocks[h2].Height

====
